---- MODULE Spec2Model ----
(***************************************************************************)
(* zendag.core.configure_pipeline as a state machine, followed by          *)
(* zendag.mlflow_utils.mlflow_run with zendag.start_pipeline, and by the   *)
(* functions of zendag.config_utils, and by two passes of                  *)
(* configure_pipeline that register and resolve at the same time.          *)
(*                                                                         *)
(* Strings are tuples of character codes, so that "+" on strings is \o and *)
(* sorted() is the code-point lexicographic order Python uses.  Python's   *)
(* None is the one-element tuple <<0>>, which no string of the model       *)
(* contains.  Paths are relative to the current working directory.         *)
(***************************************************************************)
EXTENDS Integers, Sequences, FiniteSets, TLC

VARIABLES
    stage_groups_arg,   \* argument stage_groups (None when not passed)
    name_fn_arg,        \* argument dvc_stage_name_fn ("None" when not passed)
    stage_dir_fn_arg,   \* argument stage_dir_fn ("default" when not passed)
    wdir_arg,           \* argument wdir (None when not passed)
    manual_dvc,         \* argument manual_dvc
    store,              \* argument store: group -> sequence of [name, cfg], in registry order
    pc,                 \* position of configure_pipeline
    gi,                 \* index into stage_groups of the group being processed
    ni,                 \* index into stage_items of the configuration being processed
    cfg,                \* cfg: the composed configuration of the current stage
    pos,                \* number of nodes of cfg that OmegaConf.resolve has walked
    resolvers,          \* the "outs" and "deps" resolvers registered with OmegaConf
    hydra_run_dir,      \* hydra_run_dir of the current stage
    current_deps,       \* current_deps
    current_outs,       \* current_outs
    all_deps,           \* all_deps: (group, name) -> list
    all_outs,           \* all_outs: (group, name) -> list
    dvc_stages,         \* dvc_stages: stage name -> entry
    stage_config_paths, \* stage_config_paths: stage name -> path
    files,              \* the composed configuration files on disk: path -> content
    dvc_file,           \* the content of the dvc file on disk (None while it does not exist)
    dvc_write,          \* what became of writing the dvc file: "none", "ok" or "raised"
    result,             \* how the call ended: "running", "returned" or "raised"
    faults,             \* number of failures the environment has injected so far
    errors,             \* the calls of _log.error so far, by the step that made them
    hist,               \* what happened to each stage, in processing order
    \* zendag.mlflow_utils and zendag.start_pipeline
    pipeline_id_file,   \* the content of the file .pipeline_id (None while it does not exist)
    world,              \* what an execution finds: DVC_STAGE, the files that exist, what the function does
    wpc,                \* position of the wrapper of mlflow_run ("idle" between executions)
    MLFLOW_RUN_ID,      \* os.environ["MLFLOW_RUN_ID"] of the executing process
    parent_run_id,      \* parent_run_id
    dvc_stage_name,     \* dvc_stage_name
    run_name,           \* run_name
    stage_config,       \* the locals stage and config_name, unbound until line 73 assigns them
    runs,               \* the runs of the mlflow tracking store: run id -> run
    active,             \* mlflow's stack of active runs
    outcome,            \* how the last execution ended
    writes,             \* how many times a wrapper has written .pipeline_id
    mhist,              \* the executions so far, in order
    \* zendag.config_utils
    call,               \* a call of deps_path or outs_path: the function and its arguments
    ret,                \* what the call returned or raised
    \* two passes of configure_pipeline that share the resolvers of OmegaConf
    registry,           \* OmegaConf's resolvers "outs" and "deps": the pass whose lambda each is
    frames,             \* the locals of each pass while it registers and resolves one stage
    overlap             \* a pass took a step while the other was between registering and the end of resolve

pipeline_vars == <<stage_groups_arg, name_fn_arg, stage_dir_fn_arg, wdir_arg, manual_dvc, store,
          pc, gi, ni, cfg, pos, resolvers, hydra_run_dir, current_deps,
          current_outs, all_deps, all_outs, dvc_stages, stage_config_paths,
          files, dvc_file, dvc_write, result, faults, errors, hist>>

mlflow_vars == <<pipeline_id_file, world, wpc, MLFLOW_RUN_ID, parent_run_id, dvc_stage_name,
                 run_name, stage_config, runs, active, outcome, writes, mhist>>

utils_vars == <<call, ret>>

pass_vars == <<registry, frames, overlap>>

\* what configure_pipeline leaves alone
outside == <<mlflow_vars, utils_vars, pass_vars>>

vars == <<pipeline_vars, outside>>

\* what mlflow_run and start_pipeline leave alone
beside_mlflow == <<pipeline_vars, utils_vars, pass_vars>>

\* what deps_path and outs_path leave alone
beside_utils == <<pipeline_vars, mlflow_vars, pass_vars>>

\* what two passes over one stage each leave alone
beside_passes == <<pipeline_vars, mlflow_vars, utils_vars>>

args == <<stage_groups_arg, name_fn_arg, stage_dir_fn_arg, wdir_arg, manual_dvc, store>>

(***************************************************************************)
(* Bounds of the model.                                                    *)
(***************************************************************************)
MaxStages == 2      \* configurations in the store, all groups together
MaxNodes == 2       \* nodes per stage configuration
MaxFaults == 1      \* failures of hydra.compose and of file writes in one run

(***************************************************************************)
(* Strings.                                                                *)
(***************************************************************************)
None == <<0>>
SLASH == <<47>>                 \* "/"
DOT == <<46>>                   \* "."
EMPTY == <<>>                   \* ""

ARTIFACTS_ROOT == <<119, 111, 114, 107, 98, 101, 110, 99, 104>>     \* "workbench"
PROJROOT == <<112, 114, 111, 106, 114, 111, 111, 116>>              \* "projroot"
ARTIFACTS == <<97, 114, 116, 105, 102, 97, 99, 116, 115>>            \* "artifacts"
YAML_EXT == <<46, 121, 97, 109, 108>>                               \* ".yaml"
NONE_STR == <<78, 111, 110, 101>>                                   \* "None", what an f-string makes of None
RUN_SCRIPT == <<122, 101, 110, 100, 97, 103, 46, 114, 117, 110>>    \* "zendag.run"
PYTHON_M == <<112, 121, 116, 104, 111, 110, 32, 45, 109, 32>>       \* "python -m "
OPT_CD == <<32, 45, 99, 100, 32>>                                   \* " -cd "
OPT_CN == <<32, 45, 99, 110, 32>>                                   \* " -cn "
ZENDAG_BASE == <<32, 43, 122, 101, 110, 100, 97, 103, 61, 98, 97, 115, 101, 32>>    \* " +zendag=base "
RUN_DIR_EQ == <<104, 121, 100, 114, 97, 46, 114, 117, 110, 46, 100, 105, 114, 61, 39>>  \* "hydra.run.dir='"
QUOTE == <<39>>                                                     \* "'"
OUTS_OPEN == <<36, 123, 111, 117, 116, 115, 58>>                    \* "${outs:"
DEPS_OPEN == <<36, 123, 100, 101, 112, 115, 58>>                    \* "${deps:"
CLOSE == <<125>>                                                    \* "}"
COMMA == <<44>>                                                     \* ","
TRUE_STR == <<84, 114, 117, 101>>                                   \* "True"
FALSE_STR == <<70, 97, 108, 115, 101>>                              \* "False"

\* s < t in Python's string order
RECURSIVE StrLess(_, _)
StrLess(s, t) ==
    IF t = <<>> THEN FALSE
    ELSE IF s = <<>> THEN TRUE
    ELSE IF Head(s) # Head(t) THEN Head(s) < Head(t)
    ELSE StrLess(Tail(s), Tail(t))

\* sorted(list(set(l)))
RECURSIVE SortSet(_)
SortSet(S) ==
    IF S = {} THEN <<>>
    ELSE LET m == CHOOSE x \in S : \A y \in S \ {x} : StrLess(x, y)
         IN  <<m>> \o SortSet(S \ {m})

Range(s) == {s[i] : i \in 1..Len(s)}

Last(s) == s[Len(s)]

\* the list as it was filled, neither sorted nor made unique
unsorted_list(l) == l

sorted_set(l) == SortSet(Range(l))

(***************************************************************************)
(* pathlib.                                                                *)
(***************************************************************************)
\* the components of a path string, split at "/"; empty and "." components are dropped
RECURSIVE SplitParts(_, _)
SplitParts(s, cur) ==
    LET done == IF cur = <<>> \/ cur = DOT THEN <<>> ELSE <<cur>>
    IN  IF s = <<>> THEN done
        ELSE IF <<Head(s)>> = SLASH THEN done \o SplitParts(Tail(s), <<>>)
        ELSE SplitParts(Tail(s), cur \o <<Head(s)>>)

Parts(p) == SplitParts(p, <<>>)

\* str(Path(*parts))
RECURSIVE JoinParts(_)
JoinParts(parts) ==
    IF parts = <<>> THEN DOT
    ELSE IF Len(parts) = 1 THEN parts[1]
    ELSE parts[1] \o SLASH \o JoinParts(Tail(parts))

IsPrefix(s, t) == Len(s) <= Len(t) /\ SubSeq(t, 1, Len(s)) = s

\* Path(p).absolute().relative_to(Path(w).absolute()) raises ValueError
relative_to_raises(p, w) == ~IsPrefix(Parts(w), Parts(p))

\* str(Path(p).absolute().relative_to(Path(w).absolute()))
relative_to(p, w) == JoinParts(SubSeq(Parts(p), Len(Parts(w)) + 1, Len(Parts(p))))

\* Path(a) / b, as a string
PathJoin(a, b) == JoinParts(Parts(a) \o Parts(b))

(***************************************************************************)
(* The names of the model's inputs.                                        *)
(***************************************************************************)
G1 == <<103, 49>>               \* stage group "g1"
G2 == <<103, 50>>               \* stage group "g2"
NAME_M == <<109>>               \* configuration name "m"
NAME_N == <<110>>               \* configuration name "n"
FRAG_A == <<97>>                \* file name "a"
FRAG_B == <<98>>                \* file name "b"
EXTRA == <<101, 120, 116, 114, 97>>     \* a stage name only manual_dvc uses, "extra"

(***************************************************************************)
(* zendag.core                                                             *)
(***************************************************************************)
default_stage_dir_fn(stage, name) ==
    IF stage = None THEN ARTIFACTS_ROOT \o SLASH \o name
    ELSE ARTIFACTS_ROOT \o SLASH \o stage \o SLASH \o name

default_configs_dir_fn(stage) ==
    IF stage = None THEN ARTIFACTS_ROOT
    ELSE ARTIFACTS_ROOT \o SLASH \o stage

\* a directory policy of the caller's, lambda stage, name: f"artifacts/{stage}/{name}"
custom_stage_dir_fn(stage, name) ==
    ARTIFACTS \o SLASH \o (IF stage = None THEN NONE_STR ELSE stage) \o SLASH \o name

\* the argument stage_dir_fn
stage_dir_fn(stage, name) ==
    IF stage_dir_fn_arg = "custom" THEN custom_stage_dir_fn(stage, name)
    ELSE default_stage_dir_fn(stage, name)

\* the argument configs_dir_fn, left at its default

configs_dir_fn(stage) == default_configs_dir_fn(stage)

\* f"{x}"
fmt(x) == IF x = None THEN NONE_STR ELSE x

\* dvc_stage_name_fn after lines 80-81
dvc_stage_name_fn(g, n) ==
    IF name_fn_arg = "name_only" THEN n
    ELSE IF stage_groups_arg.given THEN fmt(g) \o SLASH \o fmt(n)
    ELSE n

\* stage_groups after lines 83-84
stage_groups == IF stage_groups_arg.given THEN stage_groups_arg.value ELSE <<None>>

\* wdir after lines 86-87
wdir == IF wdir_arg = None THEN stage_dir_fn(None, EMPTY) ELSE wdir_arg

\* wdir_p(p, w) raises
wdir_p_raises(p, w) == w /\ wdir # None /\ relative_to_raises(p, wdir)

\* a wdir_p that leaves a path of the working directory as it was given
wdir_p_as_given(p, w) == IF w THEN p ELSE PROJROOT \o SLASH \o p

wdir_p(p, w) ==
    IF w THEN (IF wdir = None THEN p ELSE relative_to(p, wdir))
    ELSE PROJROOT \o SLASH \o p

(***************************************************************************)
(* Configurations.  A configuration is the sequence of its values; a value *)
(* is a literal or an interpolation:                                       *)
(*   "lit"       the string k                                              *)
(*   "outs"      ${outs:k}                                                 *)
(*   "deps"      ${deps:k,w}                                               *)
(*   "deps1"     ${deps:k}, what config_utils.deps_path(k) returns         *)
(*   "unclosed"  ${outs:${k}, an interpolation the grammar rejects         *)
(***************************************************************************)
Lit(k) == [kind |-> "lit", k |-> k, w |-> FALSE]
Outs(k) == [kind |-> "outs", k |-> k, w |-> FALSE]
Deps(k, w) == [kind |-> "deps", k |-> k, w |-> w]
Deps1(k) == [kind |-> "deps1", k |-> k, w |-> FALSE]
Unclosed(k) == [kind |-> "unclosed", k |-> k, w |-> FALSE]

\* config_utils.deps_path(s, input_stage, input_name): the interpolation it stands for
deps_path(s, input_stage, input_name) ==
    IF input_stage # None
    THEN Deps1(default_stage_dir_fn(input_stage, input_name) \o SLASH \o s)
    ELSE Deps1(EMPTY \o s)

\* the text of a value in a YAML file
Render(node) ==
    CASE node.kind = "lit" -> node.k
      [] node.kind = "outs" -> OUTS_OPEN \o node.k \o CLOSE
      [] node.kind = "deps" ->
            DEPS_OPEN \o node.k \o COMMA \o (IF node.w THEN TRUE_STR ELSE FALSE_STR) \o CLOSE
      [] node.kind = "deps1" -> DEPS_OPEN \o node.k \o CLOSE
      [] node.kind = "unclosed" -> OUTS_OPEN \o <<36, 123>> \o node.k \o CLOSE

\* hydra_zen.to_yaml(cfg): interpolations are written unresolved
to_yaml(c) == [i \in 1..Len(c) |-> Render(c[i])]

\* store.add_to_hydra_store raises GrammarParseError
GrammarBad ==
    \E g \in DOMAIN store : \E i \in 1..Len(store[g]) :
        \E j \in 1..Len(store[g][i].cfg) : store[g][i].cfg[j].kind = "unclosed"

\* calling the registered resolver of a node raises
NodeRaises(node) ==
    \/ node.kind = "deps1"
    \/ node.kind = "deps" /\ wdir_p_raises(node.k, node.w)

\* a resolver for "outs" that returns the path it appended
NodeValuePath(node) ==
    CASE node.kind = "outs" -> hydra_run_dir \o SLASH \o node.k
      [] node.kind = "deps" -> wdir_p(node.k, node.w)
      [] OTHER -> node.k

\* the value the registered resolver returns for a node
NodeValue(node) ==
    CASE node.kind = "outs" -> node.k
      [] node.kind = "deps" -> wdir_p(node.k, node.w)
      [] OTHER -> node.k

\* an "outs" resolver that appends the fragment alone
OutsAppendedFragment(dir, k) == k

\* what the "outs" resolver appends to current_outs
OutsAppended(dir, k) == dir \o SLASH \o k

\* a resolver for "deps" that appends its argument as it is
DepsAppendedRaw(k, w) == k

\* what the "deps" resolver appends to current_deps
DepsAppended(k, w) == wdir_p(k, w)

(***************************************************************************)
(* The loop of configure_pipeline.                                         *)
(***************************************************************************)
stage == stage_groups[gi]

stage_items == store[stage]

name == stage_items[ni].name

stage_key == <<stage, name>>

composed_config_path == PathJoin(configs_dir_fn(stage), name \o YAML_EXT)

\* the end of one pass of "for _, name in stage_items", and of the group after its last item
NextItem ==
    IF ni < Len(stage_items)
    THEN /\ ni' = ni + 1
         /\ gi' = gi
         /\ pc' = "compose"
    ELSE /\ ni' = 1
         /\ gi' = gi + 1
         /\ pc' = "group"

Event(c, r, w, i) == [key |-> stage_key, compose |-> c, resolve |-> r, write |-> w, inserted |-> i]

SetLast(h, e) == [h EXCEPT ![Len(h)] = e]

\* lines 72-114: the set-up, and store.add_to_hydra_store succeeds
AddStoreOk ==
    /\ pc = "add_store"
    /\ ~GrammarBad
    /\ pc' = "group"
    /\ UNCHANGED <<args, outside, gi, ni, cfg, pos, resolvers, hydra_run_dir, current_deps,
                   current_outs, all_deps, all_outs, dvc_stages, stage_config_paths,
                   files, dvc_file, dvc_write, result, faults, hist, errors>>

\* store.add_to_hydra_store raises, the error is logged and the call goes on
AddStoreRaisesGoesOn ==
    /\ pc = "add_store"
    /\ GrammarBad
    /\ pc' = "group"
    /\ errors' = errors \cup {"add_store"}
    /\ UNCHANGED <<args, outside, gi, ni, cfg, pos, resolvers, hydra_run_dir, current_deps,
                   current_outs, all_deps, all_outs, dvc_stages, stage_config_paths,
                   files, dvc_file, dvc_write, result, faults, hist>>

\* lines 115-120: store.add_to_hydra_store raises, the error is logged and raised again
AddStoreRaises ==
    /\ pc = "add_store"
    /\ GrammarBad
    /\ pc' = "done"
    /\ result' = "raised"
    /\ errors' = errors \cup {"add_store"}
    /\ UNCHANGED <<args, outside, gi, ni, cfg, pos, resolvers, hydra_run_dir, current_deps,
                   current_outs, all_deps, all_outs, dvc_stages, stage_config_paths,
                   files, dvc_file, dvc_write, faults, hist>>

\* a group without configurations ends the call, and no dvc file is written
ForStageGroupEmptyEnds ==
    /\ pc = "group"
    /\ IF gi > Len(stage_groups)
       THEN /\ pc' = "write_dvc"
            /\ UNCHANGED <<gi, result>>
       ELSE IF Len(stage_items) = 0
       THEN /\ pc' = "done"
            /\ result' = "returned"
            /\ UNCHANGED gi
       ELSE /\ pc' = "compose"
            /\ UNCHANGED <<gi, result>>
    /\ ni' = 1
    /\ UNCHANGED <<args, outside, cfg, pos, resolvers, hydra_run_dir, current_deps,
                   current_outs, all_deps, all_outs, dvc_stages, stage_config_paths,
                   files, dvc_file, dvc_write, faults, hist, errors>>

\* lines 123-133: the next stage group; a group without configurations is passed over
ForStageGroup ==
    /\ pc = "group"
    /\ IF gi > Len(stage_groups)
       THEN /\ pc' = "write_dvc"
            /\ UNCHANGED gi
       ELSE IF Len(stage_items) = 0
       THEN /\ gi' = gi + 1
            /\ UNCHANGED pc
       ELSE /\ pc' = "compose"
            /\ UNCHANGED gi
    /\ ni' = 1
    /\ UNCHANGED <<args, outside, cfg, pos, resolvers, hydra_run_dir, current_deps,
                   current_outs, all_deps, all_outs, dvc_stages, stage_config_paths,
                   files, dvc_file, dvc_write, result, faults, hist, errors>>

\* lines 140-146: hydra.compose returns the stored configuration
ComposeOk ==
    /\ pc = "compose"
    /\ cfg' = stage_items[ni].cfg
    /\ pc' = "register"
    /\ hist' = Append(hist, Event("ok", "none", "none", FALSE))
    /\ UNCHANGED <<args, outside, gi, ni, pos, resolvers, hydra_run_dir, current_deps,
                   current_outs, all_deps, all_outs, dvc_stages, stage_config_paths,
                   files, dvc_file, dvc_write, result, faults, errors>>

\* hydra.compose raises and the error leaves configure_pipeline
ComposeRaisesAborts ==
    /\ pc = "compose"
    /\ faults < MaxFaults
    /\ faults' = faults + 1
    /\ hist' = Append(hist, Event("raised", "none", "none", FALSE))
    /\ pc' = "done"
    /\ result' = "raised"
    /\ errors' = errors \cup {"compose"}
    /\ UNCHANGED <<args, outside, gi, ni, cfg, pos, resolvers, hydra_run_dir, current_deps,
                   current_outs, all_deps, all_outs, dvc_stages, stage_config_paths,
                   files, dvc_file, dvc_write>>

\* lines 147-152: hydra.compose raises, the stage is passed over
ComposeRaises ==
    /\ pc = "compose"
    /\ faults < MaxFaults
    /\ faults' = faults + 1
    /\ hist' = Append(hist, Event("raised", "none", "none", FALSE))
    /\ NextItem
    /\ errors' = errors \cup {"compose"}
    /\ UNCHANGED <<args, outside, cfg, pos, resolvers, hydra_run_dir, current_deps,
                   current_outs, all_deps, all_outs, dvc_stages, stage_config_paths,
                   files, dvc_file, dvc_write, result>>

\* the resolvers are registered anew, against the lists as the stage before left them
RegisterResolversKeepsLists ==
    /\ pc = "register"
    /\ hydra_run_dir' = wdir_p(stage_dir_fn(stage, name), TRUE)
    /\ resolvers' = "registered"
    /\ pos' = 0
    /\ pc' = "resolve"
    /\ UNCHANGED <<args, outside, gi, ni, cfg, current_deps, current_outs, all_deps, all_outs,
                   dvc_stages, stage_config_paths, files, dvc_file, dvc_write, result, faults,
                   hist, errors>>

\* the resolvers are registered, but hydra_run_dir keeps the value an earlier stage gave it
RegisterResolversStaleDir ==
    /\ pc = "register"
    /\ current_deps' = <<>>
    /\ current_outs' = <<>>
    /\ hydra_run_dir' = IF hydra_run_dir = EMPTY
                        THEN wdir_p(stage_dir_fn(stage, name), TRUE)
                        ELSE hydra_run_dir
    /\ resolvers' = "registered"
    /\ pos' = 0
    /\ pc' = "resolve"
    /\ UNCHANGED <<args, outside, gi, ni, cfg, all_deps, all_outs, dvc_stages,
                   stage_config_paths, files, dvc_file, dvc_write, result, faults, hist, errors>>

\* lines 155-168: fresh lists, and both resolvers registered anew
RegisterResolvers ==
    /\ pc = "register"
    /\ current_deps' = <<>>
    /\ current_outs' = <<>>
    /\ hydra_run_dir' = wdir_p(stage_dir_fn(stage, name), TRUE)
    /\ resolvers' = "registered"
    /\ pos' = 0
    /\ pc' = "resolve"
    /\ UNCHANGED <<args, outside, gi, ni, cfg, all_deps, all_outs, dvc_stages,
                   stage_config_paths, files, dvc_file, dvc_write, result, faults, hist, errors>>

\* line 173: OmegaConf.resolve evaluates the next value of cfg and stores the result in cfg
ResolveNode ==
    /\ pc = "resolve"
    /\ pos < Len(cfg)
    /\ ~NodeRaises(cfg[pos + 1])
    /\ LET node == cfg[pos + 1]
       IN  /\ current_outs' = IF node.kind = "outs"
                              THEN Append(current_outs, OutsAppended(hydra_run_dir, node.k))
                              ELSE current_outs
           /\ current_deps' = IF node.kind = "deps"
                              THEN Append(current_deps, DepsAppended(node.k, node.w))
                              ELSE current_deps
           /\ cfg' = [cfg EXCEPT ![pos + 1] = Lit(NodeValue(node))]
    /\ pos' = pos + 1
    /\ UNCHANGED <<args, outside, pc, gi, ni, resolvers, hydra_run_dir, all_deps, all_outs,
                   dvc_stages, stage_config_paths, files, dvc_file, dvc_write, result,
                   faults, hist, errors>>

\* lines 174-180: OmegaConf.resolve returned
ResolveDone ==
    /\ pc = "resolve"
    /\ pos = Len(cfg)
    /\ all_deps' = (stage_key :> sorted_set(current_deps)) @@ all_deps
    /\ all_outs' = (stage_key :> sorted_set(current_outs)) @@ all_outs
    /\ hist' = SetLast(hist, Event("ok", "ok", "none", FALSE))
    /\ pc' = "write_config"
    /\ UNCHANGED <<args, outside, gi, ni, cfg, pos, resolvers, hydra_run_dir, current_deps,
                   current_outs, dvc_stages, stage_config_paths, files, dvc_file,
                   dvc_write, result, faults, errors>>

\* OmegaConf.resolve raised, and the lists filled so far are kept
ResolveRaisesKeepsLists ==
    /\ pc = "resolve"
    /\ pos < Len(cfg)
    /\ NodeRaises(cfg[pos + 1])
    /\ all_deps' = (stage_key :> sorted_set(current_deps)) @@ all_deps
    /\ all_outs' = (stage_key :> sorted_set(current_outs)) @@ all_outs
    /\ hist' = SetLast(hist, Event("ok", "raised", "none", FALSE))
    /\ pc' = "write_config"
    /\ errors' = errors \cup {"resolve"}
    /\ UNCHANGED <<args, outside, gi, ni, cfg, pos, resolvers, hydra_run_dir, current_deps,
                   current_outs, dvc_stages, stage_config_paths, files, dvc_file,
                   dvc_write, result, faults>>

\* lines 181-188: OmegaConf.resolve raised at the next value
ResolveRaises ==
    /\ pc = "resolve"
    /\ pos < Len(cfg)
    /\ NodeRaises(cfg[pos + 1])
    /\ all_deps' = (stage_key :> <<>>) @@ all_deps
    /\ all_outs' = (stage_key :> <<>>) @@ all_outs
    /\ hist' = SetLast(hist, Event("ok", "raised", "none", FALSE))
    /\ pc' = "write_config"
    /\ errors' = errors \cup {"resolve"}
    /\ UNCHANGED <<args, outside, gi, ni, cfg, pos, resolvers, hydra_run_dir, current_deps,
                   current_outs, dvc_stages, stage_config_paths, files, dvc_file,
                   dvc_write, result, faults>>

\* lines 191-194: the composed configuration is written
WriteConfigOk ==
    /\ pc = "write_config"
    /\ files' = (composed_config_path :> to_yaml(cfg)) @@ files
    /\ hist' = SetLast(hist, [hist[Len(hist)] EXCEPT !.write = "ok"])
    /\ pc' = "define_stage"
    /\ UNCHANGED <<args, outside, gi, ni, cfg, pos, resolvers, hydra_run_dir, current_deps,
                   current_outs, all_deps, all_outs, dvc_stages, stage_config_paths,
                   dvc_file, dvc_write, result, faults, errors>>

\* writing the composed configuration raises, and the stage is entered all the same
WriteConfigRaisesGoesOn ==
    /\ pc = "write_config"
    /\ faults < MaxFaults
    /\ faults' = faults + 1
    /\ hist' = SetLast(hist, [hist[Len(hist)] EXCEPT !.write = "raised"])
    /\ pc' = "define_stage"
    /\ errors' = errors \cup {"write_config"}
    /\ UNCHANGED <<args, outside, gi, ni, cfg, pos, resolvers, hydra_run_dir, current_deps,
                   current_outs, all_deps, all_outs, dvc_stages, stage_config_paths,
                   files, dvc_file, dvc_write, result>>

\* lines 195-200: writing the composed configuration raises, the stage is passed over
WriteConfigRaises ==
    /\ pc = "write_config"
    /\ faults < MaxFaults
    /\ faults' = faults + 1
    /\ hist' = SetLast(hist, [hist[Len(hist)] EXCEPT !.write = "raised"])
    /\ NextItem
    /\ errors' = errors \cup {"write_config"}
    /\ UNCHANGED <<args, outside, cfg, pos, resolvers, hydra_run_dir, current_deps,
                   current_outs, all_deps, all_outs, dvc_stages, stage_config_paths,
                   files, dvc_file, dvc_write, result>>

\* a cmd that names both directories as the directory functions return them
StageCmdFromCwd ==
    PYTHON_M \o RUN_SCRIPT \o OPT_CD \o configs_dir_fn(stage)
        \o OPT_CN \o name \o ZENDAG_BASE \o RUN_DIR_EQ \o stage_dir_fn(stage, name) \o QUOTE

\* the cmd of a stage entry, lines 207-212
StageCmd ==
    PYTHON_M \o RUN_SCRIPT \o OPT_CD \o wdir_p(configs_dir_fn(stage), TRUE)
        \o OPT_CN \o name \o ZENDAG_BASE \o RUN_DIR_EQ \o hydra_run_dir \o QUOTE

\* the entry of a stage, lines 206-217
StageEntry ==
    [cmd |-> StageCmd,
     wdir |-> wdir,
     deps |-> all_deps[stage_key],
     outs |-> all_outs[stage_key],
     params |-> <<[path |-> wdir_p(composed_config_path, TRUE), value |-> None]>>]

\* the stage is entered into dvc_stages, and into stage_config_paths only when its
\* resolution did not raise
DefineStageReturnsResolved ==
    /\ pc = "define_stage"
    /\ stage_config_paths' =
           IF hist[Len(hist)].resolve = "raised"
           THEN stage_config_paths
           ELSE (dvc_stage_name_fn(stage, name) :> composed_config_path) @@ stage_config_paths
    /\ dvc_stages' = (dvc_stage_name_fn(stage, name) :> StageEntry) @@ dvc_stages
    /\ hist' = SetLast(hist, [hist[Len(hist)] EXCEPT !.inserted = TRUE])
    /\ NextItem
    /\ UNCHANGED <<args, outside, cfg, pos, resolvers, hydra_run_dir, current_deps,
                   current_outs, all_deps, all_outs, files, dvc_file, dvc_write, result,
                   faults, errors>>

\* lines 203-218: the stage is entered into stage_config_paths and dvc_stages
DefineStage ==
    /\ pc = "define_stage"
    /\ stage_config_paths' =
           (dvc_stage_name_fn(stage, name) :> composed_config_path) @@ stage_config_paths
    /\ dvc_stages' = (dvc_stage_name_fn(stage, name) :> StageEntry) @@ dvc_stages
    /\ hist' = SetLast(hist, [hist[Len(hist)] EXCEPT !.inserted = TRUE])
    /\ NextItem
    /\ UNCHANGED <<args, outside, cfg, pos, resolvers, hydra_run_dir, current_deps,
                   current_outs, all_deps, all_outs, files, dvc_file, dvc_write, result,
                   faults, errors>>

\* OmegaConf.merge(a, b): a new mapping, in which b's entries win
OmegaConf_merge(a, b) == [stages |-> b.stages @@ a.stages]

\* lines 224-230: the data handed to to_yaml; the value of OmegaConf.merge is dropped
dvc_data ==
    LET data == [stages |-> dvc_stages]
        merged == IF manual_dvc.given THEN OmegaConf_merge(data, manual_dvc) ELSE data
    IN  data

\* lines 221-231 and 234-235: the dvc file is written and the call returns
WriteDvcOk ==
    /\ pc = "write_dvc"
    /\ dvc_file' = [exists |-> TRUE, content |-> dvc_data]
    /\ dvc_write' = "ok"
    /\ result' = "returned"
    /\ pc' = "done"
    /\ UNCHANGED <<args, outside, gi, ni, cfg, pos, resolvers, hydra_run_dir, current_deps,
                   current_outs, all_deps, all_outs, dvc_stages, stage_config_paths,
                   files, faults, hist, errors>>

\* lines 232-235: writing the dvc file raises, the error is logged and the call returns
WriteDvcRaises ==
    /\ pc = "write_dvc"
    /\ faults < MaxFaults
    /\ faults' = faults + 1
    /\ dvc_write' = "raised"
    /\ result' = "returned"
    /\ pc' = "done"
    /\ errors' = errors \cup {"write_dvc"}
    /\ UNCHANGED <<args, outside, gi, ni, cfg, pos, resolvers, hydra_run_dir, current_deps,
                   current_outs, all_deps, all_outs, dvc_stages, stage_config_paths,
                   files, dvc_file, hist>>

Next ==
    \/ AddStoreOk
    \/ AddStoreRaises
    \/ ForStageGroup
    \/ ComposeOk
    \/ ComposeRaises
    \/ RegisterResolvers
    \/ ResolveNode
    \/ ResolveDone
    \/ ResolveRaises
    \/ WriteConfigOk
    \/ WriteConfigRaises
    \/ DefineStage
    \/ WriteDvcOk
    \/ WriteDvcRaises

(***************************************************************************)
(* zendag.mlflow_utils.mlflow_run and zendag.start_pipeline: the           *)
(* executions of decorated stage functions in one project directory, one   *)
(* after the other.  mlflow is the tracking store (runs) and its stack of  *)
(* active runs; start_run with a run id resumes that run, without one it   *)
(* creates a run, nested under the active run when nested=True.            *)
(***************************************************************************)
MaxRuns == 2        \* executions in one project directory

NEWLINE == <<10>>                       \* "\n"
FUNCTION_NAME == <<102>>                \* wrapped_function.__name__, "f"
RUN_LOG == <<114, 117, 110, 46, 108, 111, 103>>     \* "run.log"
DVC_YAML == <<100, 118, 99, 46, 121, 97, 109, 108>> \* "dvc.yaml"
SUCCESS == <<111, 107>>                 \* what the wrapped function returns, "ok"

\* white space, as str.strip() sees it
Whitespace == {9, 10, 11, 12, 13, 32}

RECURSIVE lstrip(_)
lstrip(s) == IF s # <<>> /\ Head(s) \in Whitespace THEN lstrip(Tail(s)) ELSE s

RECURSIVE rstrip(_)
rstrip(s) ==
    IF s # <<>> /\ s[Len(s)] \in Whitespace THEN rstrip(SubSeq(s, 1, Len(s) - 1)) ELSE s

\* the text as it is, white space included
unstripped(s) == s

\* s.strip()
strip(s) == rstrip(lstrip(s))

\* not x, for x a string or None
Falsy(x) == x = None \/ x = EMPTY

\* the id mlflow gives to its n-th run: "r0", "r1", ...
RunId(n) == <<114, 48 + n>>

NewRunId == RunId(Cardinality(DOMAIN runs))

\* a run of the tracking store
Run(parent, nm) ==
    [parent |-> parent, name |-> nm, params |-> FALSE, artifacts |-> {}, status |-> "RUNNING"]

HasSlash(s) == \E i \in 1..Len(s) : <<s[i]>> = SLASH

FirstSlash(s) == CHOOSE i \in 1..Len(s) : <<s[i]>> = SLASH /\ \A j \in 1..(i - 1) : <<s[j]>> # SLASH

\* s.split("/", 1)
split_once(s) ==
    IF HasSlash(s)
    THEN <<SubSeq(s, 1, FirstSlash(s) - 1), SubSeq(s, FirstSlash(s) + 1, Len(s))>>
    ELSE <<s>>

Unbound == [bound |-> FALSE, stage |-> None, config_name |-> None]

\* line 77: config_path
config_path == PathJoin(default_configs_dir_fn(stage_config.stage), stage_config.config_name \o YAML_EXT)

\* lines 125 and 132: log_path
log_path == PathJoin(default_stage_dir_fn(stage_config.stage, stage_config.config_name), RUN_LOG)

parent_run == active[1]

child_run == active[2]

\* both runs end, with the given status, as the two with-blocks are left
EndRuns(status, artifacts) ==
    [runs EXCEPT ![child_run].status = status,
                 ![child_run].artifacts = @ \cup artifacts,
                 ![parent_run].status = status]

Execution(fn) ==
    [fn |-> fn, existed |-> pipeline_id_file # None, run_id |-> None, parent |-> None,
     child |-> None, wrote |-> FALSE]

\* what an execution may find: DVC_STAGE unset, without a "/" or "<group>/<name>"; the
\* composed configuration and run.log there or not; the function returning or raising
Worlds ==
    [DVC_STAGE : {None, NAME_M, G1 \o SLASH \o NAME_M},
     config_exists : BOOLEAN,
     log_exists : BOOLEAN,
     function : {"returns", "raises"}]

\* start_pipeline.py lines 7-11: a run is created, its id written to .pipeline_id and the
\* dvc file logged
start_pipeline ==
    /\ wpc = "idle"
    /\ Len(mhist) < MaxRuns
    /\ pipeline_id_file' = NewRunId
    /\ runs' = (NewRunId :> [Run(None, None) EXCEPT !.artifacts = {DVC_YAML}, !.status = "FINISHED"])
                   @@ runs
    /\ mhist' = Append(mhist, [Execution("start_pipeline") EXCEPT !.parent = NewRunId])
    /\ outcome' = [kind |-> "returned", value |-> None, exc |-> "none"]
    /\ UNCHANGED <<beside_mlflow, world, wpc, MLFLOW_RUN_ID, parent_run_id, dvc_stage_name,
                   run_name, stage_config, active, writes>>

\* lines 37-53: .pipeline_id is read when it exists, and the run name chosen
WrapperEnters ==
    /\ wpc = "idle"
    /\ Len(mhist) < MaxRuns
    /\ \E w \in Worlds : world' = w
    /\ parent_run_id' = IF pipeline_id_file # None THEN strip(pipeline_id_file) ELSE None
    /\ MLFLOW_RUN_ID' = IF pipeline_id_file # None THEN parent_run_id' ELSE None
    /\ dvc_stage_name' = world'.DVC_STAGE
    /\ run_name' = IF Falsy(dvc_stage_name') THEN FUNCTION_NAME ELSE dvc_stage_name'
    /\ stage_config' = Unbound
    /\ outcome' = [kind |-> "running", value |-> None, exc |-> "none"]
    /\ mhist' = Append(mhist, Execution("mlflow_run"))
    /\ wpc' = "start_parent"
    /\ UNCHANGED <<beside_mlflow, pipeline_id_file, runs, active, writes>>

\* lines 57-62, without a parent run id: a parent run is created and its id written
StartNewParent ==
    /\ wpc = "start_parent"
    /\ Falsy(parent_run_id)
    /\ runs' = (NewRunId :> Run(None, None)) @@ runs
    /\ active' = <<NewRunId>>
    /\ pipeline_id_file' = NewRunId \o NEWLINE
    /\ writes' = writes + 1
    /\ mhist' = SetLast(mhist, [Last(mhist) EXCEPT !.run_id = None, !.parent = NewRunId,
                                                   !.wrote = TRUE])
    /\ wpc' = "start_child"
    /\ UNCHANGED <<beside_mlflow, world, MLFLOW_RUN_ID, parent_run_id, dvc_stage_name,
                   run_name, stage_config, outcome>>

\* lines 57-60, with a parent run id: that run is resumed and nothing is written
ResumeParent ==
    /\ wpc = "start_parent"
    /\ ~Falsy(parent_run_id)
    /\ runs' = IF parent_run_id \in DOMAIN runs
               THEN [runs EXCEPT ![parent_run_id].status = "RUNNING"]
               ELSE (parent_run_id :> Run(None, None)) @@ runs
    /\ active' = <<parent_run_id>>
    /\ mhist' = SetLast(mhist, [Last(mhist) EXCEPT !.run_id = parent_run_id,
                                                   !.parent = parent_run_id])
    /\ wpc' = "start_child"
    /\ UNCHANGED <<beside_mlflow, pipeline_id_file, world, MLFLOW_RUN_ID, parent_run_id,
                   dvc_stage_name, run_name, stage_config, outcome, writes>>

\* lines 65-66: the child run, nested under the active run
StartChild ==
    /\ wpc = "start_child"
    /\ runs' = (NewRunId :> Run(parent_run, run_name)) @@ runs
    /\ active' = Append(active, NewRunId)
    /\ mhist' = SetLast(mhist, [Last(mhist) EXCEPT !.child = NewRunId])
    /\ wpc' = IF Falsy(dvc_stage_name) THEN "no_stage" ELSE "log_config"
    /\ UNCHANGED <<beside_mlflow, pipeline_id_file, world, MLFLOW_RUN_ID, parent_run_id,
                   dvc_stage_name, run_name, stage_config, outcome, writes>>

\* lines 70-95: DVC_STAGE splits into stage and config_name; the parameters and the
\* configuration file are logged when the file exists
LogConfig ==
    /\ wpc = "log_config"
    /\ Len(split_once(dvc_stage_name)) = 2
    /\ stage_config' = [bound |-> TRUE, stage |-> split_once(dvc_stage_name)[1],
                        config_name |-> split_once(dvc_stage_name)[2]]
    /\ runs' = IF world.config_exists
               THEN [runs EXCEPT ![child_run].params = TRUE,
                                 ![child_run].artifacts = @ \cup {config_path'}]
               ELSE runs
    /\ wpc' = "call"
    /\ UNCHANGED <<beside_mlflow, pipeline_id_file, world, MLFLOW_RUN_ID, parent_run_id,
                   dvc_stage_name, run_name, active, outcome, writes, mhist>>

\* lines 73 and 96-100: DVC_STAGE has no "/", the assignment raises ValueError before it
\* binds either name, and the error is logged
LogConfigRaises ==
    /\ wpc = "log_config"
    /\ Len(split_once(dvc_stage_name)) # 2
    /\ wpc' = "call"
    /\ UNCHANGED <<beside_mlflow, pipeline_id_file, world, MLFLOW_RUN_ID, parent_run_id,
                   dvc_stage_name, run_name, stage_config, runs, active, outcome, writes, mhist>>

\* lines 101-113: without DVC_STAGE nothing is logged
NoStage ==
    /\ wpc = "no_stage"
    /\ wpc' = "call"
    /\ UNCHANGED <<beside_mlflow, pipeline_id_file, world, MLFLOW_RUN_ID, parent_run_id,
                   dvc_stage_name, run_name, stage_config, runs, active, outcome, writes, mhist>>

\* reading the locals stage and config_name at lines 125 and 132 raises UnboundLocalError
ReadRaises == ~stage_config.bound

\* the run.log to log as an artifact, lines 126-128 and 133-135
RunLogArtifact == IF world.log_exists THEN {log_path} ELSE {}

\* lines 120-121 and 132-137: the function returns, run.log is logged, the result returned
FunctionReturns ==
    /\ wpc = "call"
    /\ world.function = "returns"
    /\ ~ReadRaises
    /\ runs' = EndRuns("FINISHED", RunLogArtifact)
    /\ outcome' = [kind |-> "returned", value |-> SUCCESS, exc |-> "none"]
    /\ active' = <<>>
    /\ wpc' = "idle"
    /\ UNCHANGED <<beside_mlflow, pipeline_id_file, world, MLFLOW_RUN_ID, parent_run_id,
                   dvc_stage_name, run_name, stage_config, writes, mhist>>

\* lines 120-121, 132 and 139-142: the function returns, line 132 reads stage, which is
\* not bound, and the error leaves the wrapper
FunctionReturnsReadRaises ==
    /\ wpc = "call"
    /\ world.function = "returns"
    /\ ReadRaises
    /\ runs' = EndRuns("FAILED", {})
    /\ outcome' = [kind |-> "raised", value |-> None, exc |-> "UnboundLocalError"]
    /\ active' = <<>>
    /\ wpc' = "idle"
    /\ UNCHANGED <<beside_mlflow, pipeline_id_file, world, MLFLOW_RUN_ID, parent_run_id,
                   dvc_stage_name, run_name, stage_config, writes, mhist>>

\* lines 122-129 and 139-142: the function raises, run.log is logged and the exception
\* raised again
FunctionRaises ==
    /\ wpc = "call"
    /\ world.function = "raises"
    /\ ~ReadRaises
    /\ runs' = EndRuns("FAILED", RunLogArtifact)
    /\ outcome' = [kind |-> "raised", value |-> None, exc |-> "ValueError"]
    /\ active' = <<>>
    /\ wpc' = "idle"
    /\ UNCHANGED <<beside_mlflow, pipeline_id_file, world, MLFLOW_RUN_ID, parent_run_id,
                   dvc_stage_name, run_name, stage_config, writes, mhist>>

\* lines 122-125 and 139-142: the function raises, line 125 reads stage, which is not
\* bound, and that error leaves the wrapper in place of the function's
FunctionRaisesReadRaises ==
    /\ wpc = "call"
    /\ world.function = "raises"
    /\ ReadRaises
    /\ runs' = EndRuns("FAILED", {})
    /\ outcome' = [kind |-> "raised", value |-> None, exc |-> "UnboundLocalError"]
    /\ active' = <<>>
    /\ wpc' = "idle"
    /\ UNCHANGED <<beside_mlflow, pipeline_id_file, world, MLFLOW_RUN_ID, parent_run_id,
                   dvc_stage_name, run_name, stage_config, writes, mhist>>

NextMlflow ==
    \/ start_pipeline
    \/ WrapperEnters
    \/ StartNewParent
    \/ ResumeParent
    \/ StartChild
    \/ LogConfig
    \/ LogConfigRaises
    \/ NoStage
    \/ FunctionReturns
    \/ FunctionReturnsReadRaises
    \/ FunctionRaises
    \/ FunctionRaisesReadRaises

\* no execution yet: no .pipeline_id and no run
NoExecution ==
    /\ pipeline_id_file = None
    /\ world = [DVC_STAGE |-> None, config_exists |-> FALSE, log_exists |-> FALSE,
                function |-> "returns"]
    /\ wpc = "idle"
    /\ MLFLOW_RUN_ID = None
    /\ parent_run_id = None
    /\ dvc_stage_name = None
    /\ run_name = None
    /\ stage_config = Unbound
    /\ runs = <<>>
    /\ active = <<>>
    /\ outcome = [kind |-> "none", value |-> None, exc |-> "none"]
    /\ writes = 0
    /\ mhist = <<>>

(***************************************************************************)
(* zendag.config_utils: deps_path and outs_path, which format the marker   *)
(* strings.  The argument stage_dir_fn of deps_path is "default" when it   *)
(* is not passed, "None" when None is passed, and "custom" for a function  *)
(* of the caller's.                                                        *)
(***************************************************************************)
OUTPUT_DIR == <<36, 123, 104, 121, 100, 114, 97, 58, 114, 117, 110, 116, 105, 109, 101, 46,
                111, 117, 116, 112, 117, 116, 95, 100, 105, 114, 125>>  \* "${hydra:runtime.output_dir}"

\* the calls of deps_path
DepsPathCalls ==
    [fn : {"deps_path"}, s : {FRAG_A, FRAG_B}, input_stage : {None, G1, G2},
     input_name : {None, NAME_M, NAME_N}, stage_dir_fn : {"default", "None", "custom"},
     root_dir : {FALSE}]

\* the calls of outs_path
OutsPathCalls ==
    [fn : {"outs_path"}, s : {FRAG_A, FRAG_B}, input_stage : {None}, input_name : {None},
     stage_dir_fn : {"default"}, root_dir : BOOLEAN]

Pending == [kind |-> "pending", value |-> EMPTY, exc |-> "none", msg |-> "none"]

Returned(text) == [kind |-> "returned", value |-> text, exc |-> "none", msg |-> "none"]

Raised(exc, msg) == [kind |-> "raised", value |-> EMPTY, exc |-> exc, msg |-> msg]

\* line 33: base_dir, for a stage_dir_fn that is not None
base_dir ==
    (IF call.stage_dir_fn = "custom"
     THEN custom_stage_dir_fn(call.input_stage, call.input_name)
     ELSE default_stage_dir_fn(call.input_stage, call.input_name)) \o SLASH

\* lines 28-30: input_stage without input_name
DepsPathNameMissing ==
    /\ ret.kind = "pending"
    /\ call.fn = "deps_path"
    /\ call.input_stage # None
    /\ call.input_name = None
    /\ ret' = Raised("ValueError", "input_name must be specified if input_stage is provided.")
    /\ UNCHANGED <<beside_utils, call>>

\* lines 31-32: input_stage and input_name, and None passed as stage_dir_fn
DepsPathFnMissing ==
    /\ ret.kind = "pending"
    /\ call.fn = "deps_path"
    /\ call.input_stage # None
    /\ call.input_name # None
    /\ call.stage_dir_fn = "None"
    /\ ret' = Raised("ValueError", "stage_dir_fn must be provided if input_stage/input_name are used.")
    /\ UNCHANGED <<beside_utils, call>>

\* lines 33 and 36: the marker of a file of stage (input_stage, input_name)
DepsPathOfStage ==
    /\ ret.kind = "pending"
    /\ call.fn = "deps_path"
    /\ call.input_stage # None
    /\ call.input_name # None
    /\ call.stage_dir_fn # "None"
    /\ ret' = Returned(DEPS_OPEN \o base_dir \o call.s \o CLOSE)
    /\ UNCHANGED <<beside_utils, call>>

\* lines 34-36: the marker of a file, input_stage being None
DepsPathPlain ==
    /\ ret.kind = "pending"
    /\ call.fn = "deps_path"
    /\ call.input_stage = None
    /\ ret' = Returned(DEPS_OPEN \o EMPTY \o call.s \o CLOSE)
    /\ UNCHANGED <<beside_utils, call>>

\* lines 10-13: outs_path
OutsPath ==
    /\ ret.kind = "pending"
    /\ call.fn = "outs_path"
    /\ ret' = Returned(OUTS_OPEN \o (IF call.root_dir THEN call.s
                                     ELSE OUTPUT_DIR \o SLASH \o call.s) \o CLOSE)
    /\ UNCHANGED <<beside_utils, call>>

NextConfigUtils ==
    \/ DepsPathNameMissing
    \/ DepsPathFnMissing
    \/ DepsPathOfStage
    \/ DepsPathPlain
    \/ OutsPath

\* no function of config_utils is being called
NoUtilCall ==
    /\ call = [fn |-> "none", s |-> EMPTY, input_stage |-> None, input_name |-> None,
               stage_dir_fn |-> "default", root_dir |-> FALSE]
    /\ ret = Pending

(***************************************************************************)
(* Two passes of configure_pipeline in one process, each registering the   *)
(* resolvers and resolving one stage (lines 155-188), their steps          *)
(* interleaved.  A registered lambda reads current_outs, hydra_run_dir and *)
(* current_deps from the frame of the pass that registered it.             *)
(***************************************************************************)
Passes == {1, 2}

Other(p) == 3 - p

\* the stage each pass is at
PassKey(p) == IF p = 1 THEN <<G1, NAME_M>> ELSE <<G2, NAME_N>>

\* the values of the stage of each pass: an output, a dependency through projroot and,
\* for the first pass, what deps_path returns
PassNodes(p) ==
    IF p = 1 THEN {Outs(FRAG_A), Deps(FRAG_A, FALSE), deps_path(FRAG_A, None, None)}
    ELSE {Outs(FRAG_B), Deps(FRAG_B, FALSE)}

\* the frame of a pass whose stage was composed to c
Frame(p, c) ==
    [pc |-> "register", key |-> PassKey(p), composed |-> c, cfg |-> c, pos |-> 0,
     hydra_run_dir |-> EMPTY, current_deps |-> <<>>, current_outs |-> <<>>,
     all_deps |-> <<>>, all_outs |-> <<>>, resolve |-> "none"]

\* pass p has registered a resolver and its resolve call has not ended
Registering(p) == frames[p].pc \in {"register_deps", "resolve"}

\* lines 155-164: fresh lists, hydra_run_dir, and the resolver "outs" registered
PassRegisterOuts(p) ==
    /\ frames[p].pc = "register"
    /\ frames' = [frames EXCEPT ![p].current_deps = <<>>,
                                ![p].current_outs = <<>>,
                                ![p].hydra_run_dir = wdir_p(stage_dir_fn(PassKey(p)[1], PassKey(p)[2]), TRUE),
                                ![p].pc = "register_deps"]
    /\ registry' = [registry EXCEPT !.outs = p]
    /\ overlap' = (overlap \/ Registering(Other(p)))
    /\ UNCHANGED beside_passes

\* the resolver "deps" is registered only where none is registered yet
PassRegisterDepsOnce(p) ==
    /\ frames[p].pc = "register_deps"
    /\ frames' = [frames EXCEPT ![p].pc = "resolve"]
    /\ registry' = IF registry.deps = 0 THEN [registry EXCEPT !.deps = p] ELSE registry
    /\ overlap' = (overlap \/ Registering(Other(p)))
    /\ UNCHANGED beside_passes

\* lines 166-168: the resolver "deps" registered, replacing the one there
PassRegisterDeps(p) ==
    /\ frames[p].pc = "register_deps"
    /\ frames' = [frames EXCEPT ![p].pc = "resolve"]
    /\ registry' = [registry EXCEPT !.deps = p]
    /\ overlap' = (overlap \/ Registering(Other(p)))
    /\ UNCHANGED beside_passes

\* line 173: OmegaConf.resolve of pass p evaluates the next value of its cfg, calling the
\* resolver that is registered, which appends to the list of the pass it belongs to
PassResolveNode(p) ==
    /\ frames[p].pc = "resolve"
    /\ frames[p].pos < Len(frames[p].cfg)
    /\ ~NodeRaises(frames[p].cfg[frames[p].pos + 1])
    /\ LET node == frames[p].cfg[frames[p].pos + 1]
           o == registry.outs
           d == registry.deps
           appended ==
               IF node.kind = "outs"
               THEN [frames EXCEPT ![o].current_outs =
                        Append(@, OutsAppended(frames[o].hydra_run_dir, node.k))]
               ELSE IF node.kind = "deps"
               THEN [frames EXCEPT ![d].current_deps = Append(@, DepsAppended(node.k, node.w))]
               ELSE frames
       IN  frames' = [appended EXCEPT ![p].cfg[frames[p].pos + 1] = Lit(NodeValue(node)),
                                      ![p].pos = @ + 1]
    /\ overlap' = (overlap \/ Registering(Other(p)))
    /\ UNCHANGED <<beside_passes, registry>>

\* lines 174-180: OmegaConf.resolve of pass p returned
PassResolveDone(p) ==
    /\ frames[p].pc = "resolve"
    /\ frames[p].pos = Len(frames[p].cfg)
    /\ frames' = [frames EXCEPT ![p].all_deps = sorted_set(frames[p].current_deps),
                                ![p].all_outs = sorted_set(frames[p].current_outs),
                                ![p].resolve = "ok",
                                ![p].pc = "done"]
    /\ overlap' = (overlap \/ Registering(Other(p)))
    /\ UNCHANGED <<beside_passes, registry>>

\* lines 181-188: OmegaConf.resolve of pass p raised at the next value
PassResolveRaises(p) ==
    /\ frames[p].pc = "resolve"
    /\ frames[p].pos < Len(frames[p].cfg)
    /\ NodeRaises(frames[p].cfg[frames[p].pos + 1])
    /\ frames' = [frames EXCEPT ![p].all_deps = <<>>,
                                ![p].all_outs = <<>>,
                                ![p].resolve = "raised",
                                ![p].pc = "done"]
    /\ overlap' = (overlap \/ Registering(Other(p)))
    /\ UNCHANGED <<beside_passes, registry>>

NextPasses ==
    \E p \in Passes :
        \/ PassRegisterOuts(p)
        \/ PassRegisterDeps(p)
        \/ PassResolveNode(p)
        \/ PassResolveDone(p)
        \/ PassResolveRaises(p)

\* no second pass: nothing registered by one
NoPasses ==
    /\ registry = [outs |-> 0, deps |-> 0]
    /\ frames = [p \in Passes |-> Frame(p, <<>>)]
    /\ overlap = FALSE

(***************************************************************************)
(* The calls the model covers.                                             *)
(***************************************************************************)
Groups == {G1, G2, None}

\* the configuration names of a group, in registry order
NameSeq == <<NAME_M, NAME_N>>

\* the values of one stage's configuration: two outputs, what deps_path returns, and a
\* dependency on a file of the current directory, which lies in wdir only when wdir is "."
Nodes == {Outs(FRAG_A), Outs(FRAG_B), deps_path(FRAG_A, None, None), Deps(FRAG_A, TRUE)}

SeqsUpTo(S, n) == UNION {[1..k -> S] : k \in 0..n}

\* a configuration whose one value is a dependency on the file a of stage (g1, m): as
\* deps_path("a", "g1", "m") writes it, and as a marker with both arguments
LinkConfigs ==
    {<<deps_path(FRAG_A, G1, NAME_M)>>,
     <<Deps(default_stage_dir_fn(G1, NAME_M) \o SLASH \o FRAG_A, TRUE)>>}

\* a dependency on the file a of stage (g1, m), followed by a dependency on a file that
\* lies in the working directory only when wdir is "."
BrokenLinkConfig ==
    <<Deps(default_stage_dir_fn(G1, NAME_M) \o SLASH \o FRAG_A, TRUE), Deps(FRAG_A, TRUE)>>

\* the configurations a stage may have: up to MaxNodes values, one the grammar rejects, or
\* a dependency on stage (g1, m)
Configs ==
    SeqsUpTo(Nodes, MaxNodes) \cup {<<Unclosed(FRAG_A)>>} \cup LinkConfigs
        \cup {BrokenLinkConfig}

\* the configuration of the other stages of a store: an output, a dependency reached through
\* the projroot link and a dependency on a file of stage (g1, m)
GoodConfig ==
    <<Outs(FRAG_B), Deps(FRAG_A, FALSE),
      Deps(default_stage_dir_fn(G1, NAME_M) \o SLASH \o FRAG_A, TRUE)>>

\* how many configurations each group of a store holds; Init leaves the groups
\* that the call does not name empty
Shapes ==
    {sh \in [Groups -> 0..Len(NameSeq)] : sh[G1] + sh[G2] + sh[None] <= MaxStages}

Slots(sh) == {<<g, i>> : g \in Groups, i \in 1..Len(NameSeq)} \cap
             {sl \in Groups \X (1..Len(NameSeq)) : sl[2] <= sh[sl[1]]}

\* the store of shape sh whose configurations are GoodConfig, but for slot free, which holds c
MakeStore(sh, free, c) ==
    [g \in Groups |->
        [i \in 1..sh[g] |->
            [name |-> NameSeq[i],
             cfg |-> IF <<g, i>> = free THEN c ELSE GoodConfig]]]

\* the lists passed as stage_groups: two named groups in either order, and the null group
GroupLists == {<<G1, G2>>, <<G2, G1>>, <<None, G1>>}

ManualEntry == [cmd |-> EXTRA, wdir |-> DOT, deps |-> <<>>, outs |-> <<>>, params |-> <<>>]

ManualStages == ((G1 \o SLASH \o NAME_M) :> ManualEntry) @@ (EXTRA :> ManualEntry)

\* the optional arguments dvc_stage_name_fn (lambda g, n: n), manual_dvc, wdir (".") and
\* stage_dir_fn (custom_stage_dir_fn, with wdir "." so that every path of the call lies
\* in the working directory)
NoOptionalArgs ==
    [name_fn |-> "None", manual |-> [given |-> FALSE, stages |-> <<>>], wdir |-> None,
     stage_dir |-> "default"]

OptionalArgs ==
    {[name_fn |-> "name_only", manual |-> [given |-> FALSE, stages |-> <<>>], wdir |-> None,
      stage_dir |-> "default"],
     [name_fn |-> "None", manual |-> [given |-> TRUE, stages |-> ManualStages], wdir |-> None,
      stage_dir |-> "default"],
     [name_fn |-> "None", manual |-> [given |-> FALSE, stages |-> <<>>], wdir |-> DOT,
      stage_dir |-> "default"],
     [name_fn |-> "None", manual |-> [given |-> FALSE, stages |-> <<>>], wdir |-> DOT,
      stage_dir |-> "custom"]}

\* the calls: every group list, and no list at all, without optional arguments, and
\* the list [g1, g2] with one optional argument
Calls ==
    {[groups |-> [given |-> FALSE, value |-> <<>>], opt |-> NoOptionalArgs]}
    \cup {[groups |-> [given |-> TRUE, value |-> l], opt |-> NoOptionalArgs] : l \in GroupLists}
    \cup {[groups |-> [given |-> TRUE, value |-> <<G1, G2>>], opt |-> o] : o \in OptionalArgs}

Init ==
    /\ \E c \in Calls :
        /\ stage_groups_arg = c.groups
        /\ name_fn_arg = c.opt.name_fn
        /\ stage_dir_fn_arg = c.opt.stage_dir
        /\ manual_dvc = c.opt.manual
        /\ wdir_arg = c.opt.wdir
    /\ \E sh \in Shapes : \E free \in Slots(sh) \cup {<<None, 0>>} : \E c \in Configs :
        /\ \A g \in Groups : sh[g] > 0 => g \in Range(stage_groups)
        /\ store = MakeStore(sh, free, c)
    /\ pc = "add_store"
    /\ gi = 1
    /\ ni = 1
    /\ cfg = <<>>
    /\ pos = 0
    /\ resolvers = "none"
    /\ hydra_run_dir = EMPTY
    /\ current_deps = <<>>
    /\ current_outs = <<>>
    /\ all_deps = <<>>
    /\ all_outs = <<>>
    /\ dvc_stages = <<>>
    /\ stage_config_paths = <<>>
    /\ files = <<>>
    /\ dvc_file = [exists |-> FALSE, content |-> <<>>]
    /\ dvc_write = "none"
    /\ result = "running"
    /\ faults = 0
    /\ errors = {}
    /\ hist = <<>>
    /\ NoExecution
    /\ NoUtilCall
    /\ NoPasses

Spec == Init /\ [][Next]_vars

\* configure_pipeline is not called
NoCall ==
    /\ stage_groups_arg = [given |-> FALSE, value |-> <<>>]
    /\ name_fn_arg = NoOptionalArgs.name_fn
    /\ stage_dir_fn_arg = NoOptionalArgs.stage_dir
    /\ manual_dvc = NoOptionalArgs.manual
    /\ wdir_arg = NoOptionalArgs.wdir
    /\ store = [g \in Groups |-> <<>>]
    /\ pc = "add_store"
    /\ gi = 1
    /\ ni = 1
    /\ cfg = <<>>
    /\ pos = 0
    /\ resolvers = "none"
    /\ hydra_run_dir = EMPTY
    /\ current_deps = <<>>
    /\ current_outs = <<>>
    /\ all_deps = <<>>
    /\ all_outs = <<>>
    /\ dvc_stages = <<>>
    /\ stage_config_paths = <<>>
    /\ files = <<>>
    /\ dvc_file = [exists |-> FALSE, content |-> <<>>]
    /\ dvc_write = "none"
    /\ result = "running"
    /\ faults = 0
    /\ errors = {}
    /\ hist = <<>>

InitMlflow == NoCall /\ NoExecution /\ NoUtilCall /\ NoPasses

SpecMlflow == InitMlflow /\ [][NextMlflow]_vars

InitConfigUtils ==
    /\ NoCall
    /\ NoExecution
    /\ call \in DepsPathCalls \cup OutsPathCalls
    /\ ret = Pending
    /\ NoPasses

SpecConfigUtils == InitConfigUtils /\ [][NextConfigUtils]_vars

\* both passes have composed their stage, with the default arguments
InitPasses ==
    /\ NoCall
    /\ NoExecution
    /\ NoUtilCall
    /\ registry = [outs |-> 0, deps |-> 0]
    /\ frames \in [Passes -> UNION {{Frame(p, c) : c \in SeqsUpTo(PassNodes(p), MaxNodes)} : p \in Passes}]
    /\ \A p \in Passes : frames[p].key = PassKey(p)
    /\ overlap = FALSE

SpecPasses == InitPasses /\ [][NextPasses]_vars

(***************************************************************************)
(* Properties.                                                             *)
(***************************************************************************)
HistKeys == [i \in 1..Len(hist) |-> hist[i].key]

StagesOf(g) == [i \in 1..Len(store[g]) |-> <<g, store[g][i].name>>]

RECURSIVE StagesFrom(_)
StagesFrom(i) ==
    IF i > Len(stage_groups) THEN <<>>
    ELSE StagesOf(stage_groups[i]) \o StagesFrom(i + 1)

\* the stages of the call, in processing order
AllStages == StagesFrom(1)

\* the stored configuration of a stage
StoreCfg(key) ==
    LET l == store[key[1]]
    IN  l[CHOOSE i \in 1..Len(l) : l[i].name = key[2]].cfg

StageName(key) == dvc_stage_name_fn(key[1], key[2])

ConfigPath(key) == PathJoin(configs_dir_fn(key[1]), key[2] \o YAML_EXT)

\* the loop has left stage i of hist behind
Finished(i) == i < Len(hist) \/ pc \in {"compose", "group", "write_dvc", "done"}

\* stage i of hist has just been entered into the manifest
JustEntered(i) == i = Len(hist) /\ pc \in {"compose", "group"} /\ hist[i].inserted

\* a step: the entries of the manifest change only where a stage is entered, the
\* configuration files only where one is written
EntriesKept ==
    /\ pc # "define_stage" => dvc_stages' = dvc_stages
    /\ pc # "write_config" => files' = files

\* no other stage with the name of stage i was entered into the manifest
NameIsOwn(i) ==
    \A j \in 1..Len(hist) :
        (j # i /\ hist[j].inserted) => StageName(hist[j].key) # StageName(hist[i].key)

\* C1 (part): what holds of a stage whose resolution raised, in every state: its
\* configuration file is written next, the stage is entered into the manifest once that
\* write succeeded, and the call ends only after every stage of every group was processed
C1_StageKept ==
    \A i \in 1..Len(hist) :
        hist[i].resolve = "raised" =>
            /\ hist[i].compose = "ok"
            /\ (i = Len(hist) /\ hist[i].write = "none") => pc = "write_config"
            /\ (Finished(i) /\ hist[i].write = "ok") => hist[i].inserted
            /\ pc = "done" => (result = "returned" /\ HistKeys = AllStages)

\* C1 (part): the step that enters a stage whose resolution raised enters it with
\* deps == [] and outs == []
C1_EntersEmpty ==
    (pc = "define_stage" /\ Last(hist).resolve = "raised" /\ pc' # pc) =>
        /\ StageName(stage_key) \in DOMAIN dvc_stages'
        /\ dvc_stages'[StageName(stage_key)].deps = <<>>
        /\ dvc_stages'[StageName(stage_key)].outs = <<>>
        /\ pc' \in {"compose", "group"}

\* C1: a stage whose composition succeeded and whose OmegaConf.resolve raises, also after
\* some of its markers were evaluated, is entered into the manifest with deps == [] and
\* outs == [] (its configuration file being written), and the loop goes on to every
\* remaining stage of every remaining group
C1_ResolveFailureKeepsStage == []C1_StageKept /\ [][C1_EntersEmpty]_vars

\* a finished call in which a stage raised at its second value, after an outs marker was
\* evaluated, was entered with empty lists, and the stage after it was entered too
C1_Witness ==
    /\ pc = "done"
    /\ \E i \in 1..Len(hist) - 1 :
        /\ hist[i].resolve = "raised"
        /\ StoreCfg(hist[i].key)[1].kind = "outs"
        /\ hist[i].inserted
        /\ NameIsOwn(i)
        /\ dvc_stages[StageName(hist[i].key)].deps = <<>>
        /\ dvc_stages[StageName(hist[i].key)].outs = <<>>
        /\ hist[i + 1].inserted

\* a marker expression that cannot be evaluated
Malformed(node) == node.kind = "unclosed" \/ NodeRaises(node)

MalformedCount(c) == Cardinality({j \in 1..Len(c) : Malformed(c[j])})

\* the outs and the deps that the markers of a stored configuration declare
DeclaredOuts(key) ==
    LET c == StoreCfg(key)
    IN  SortSet({OutsAppended(wdir_p(stage_dir_fn(key[1], key[2]), TRUE), c[j].k) :
                    j \in {x \in 1..Len(c) : c[x].kind = "outs"}})

DeclaredDeps(key) ==
    LET c == StoreCfg(key)
    IN  SortSet({DepsAppended(c[j].k, c[j].w) :
                    j \in {x \in 1..Len(c) : c[x].kind = "deps"}})

\* C2: a call over two stages, of which one holds a single malformed marker and the other
\* none, in either order (nothing else failing, default stage names): the call returns, the
\* dvc file is written, and the well-formed stage is in it with the deps and outs of its markers
C2_MalformedMarkerIsLocal ==
    \A k1, k2 \in Range(AllStages) :
        ( /\ pc = "done"
          /\ faults = 0
          /\ name_fn_arg = "None"
          /\ Len(AllStages) = 2
          /\ k1 # k2
          /\ MalformedCount(StoreCfg(k1)) = 1
          /\ MalformedCount(StoreCfg(k2)) = 0 )
        => /\ result = "returned"
           /\ dvc_file.exists
           /\ StageName(k2) \in DOMAIN dvc_file.content.stages
           /\ dvc_file.content.stages[StageName(k2)].deps = DeclaredDeps(k2)
           /\ dvc_file.content.stages[StageName(k2)].outs = DeclaredOuts(k2)

\* C3 (part): a stage whose composition raised has no configuration file, and no entry in
\* dvc_stages or in the returned mapping; the call ends only after every stage was processed
C3_StageSkipped ==
    \A i \in 1..Len(hist) :
        hist[i].compose = "raised" =>
            /\ ConfigPath(hist[i].key) \notin DOMAIN files
            /\ NameIsOwn(i) =>
                /\ StageName(hist[i].key) \notin DOMAIN dvc_stages
                /\ StageName(hist[i].key) \notin DOMAIN stage_config_paths
                /\ dvc_file.exists => StageName(hist[i].key) \notin DOMAIN dvc_file.content.stages
            /\ pc = "done" => (result = "returned" /\ HistKeys = AllStages)

\* C3 (part): the step in which a composition raises changes no entry and no file, and
\* goes on with the loop
C3_OthersUntouched ==
    (pc = "compose" /\ Len(hist') = Len(hist) + 1 /\ Last(hist').compose = "raised") =>
        /\ dvc_stages' = dvc_stages
        /\ stage_config_paths' = stage_config_paths
        /\ files' = files
        /\ all_deps' = all_deps
        /\ all_outs' = all_outs
        /\ result' = "running"
        /\ pc' \in {"compose", "group"}

\* C3: when composing a stage raises, the stage is skipped: no manifest entry, no
\* configuration file, no entry in the returned mapping; the entries of the other stages
\* are unchanged and every other stage of every group is still processed
C3_ComposeFailureSkipsStage == []C3_StageSkipped /\ [][C3_OthersUntouched]_vars

\* a finished call in which the first stage failed composition and the second was entered
C3_Witness ==
    /\ pc = "done"
    /\ Len(hist) >= 2
    /\ hist[1].compose = "raised"
    /\ hist[2].inserted
    /\ StageName(hist[2].key) \in DOMAIN dvc_stages
    /\ StageName(hist[1].key) \notin DOMAIN dvc_stages

\* C4: when writing a stage's configuration file raises, the call is aborted at once: the
\* error reaches the caller and no later stage is processed
C4_ConfigWriteFailureAborts ==
    \A i \in 1..Len(hist) :
        hist[i].write = "raised" => (i = Len(hist) /\ pc = "done" /\ result = "raised")

\* C5: when writing the dvc file raises, the call does not return normally
C5_DvcWriteFailureIsFatal == dvc_write = "raised" => result # "returned"

\* C6: two different stages with the same stage name are never both entered into the manifest
C6_DuplicateNameIsFatal ==
    \A i, j \in 1..Len(hist) :
        (i < j /\ hist[i].inserted /\ StageName(hist[i].key) = StageName(hist[j].key))
            => ~hist[j].inserted

\* C7: with manual_dvc passed, every manual entry is in the written dvc file, with the
\* manual content
C7_ManualEntriesWritten ==
    (dvc_file.exists /\ manual_dvc.given) =>
        \A k \in DOMAIN manual_dvc.stages :
            /\ k \in DOMAIN dvc_file.content.stages
            /\ dvc_file.content.stages[k] = manual_dvc.stages[k]

\* l is ascending in Python's string order, which leaves no room for a duplicate
Ascending(l) == \A i \in 1..(Len(l) - 1) : StrLess(l[i], l[i + 1])

\* C8: in every entry of dvc_stages and of the written dvc file, deps and outs are sorted
\* ascending and hold no path twice
C8_SortedUnique ==
    /\ \A k \in DOMAIN dvc_stages :
        Ascending(dvc_stages[k].deps) /\ Ascending(dvc_stages[k].outs)
    /\ dvc_file.exists =>
        \A k \in DOMAIN dvc_file.content.stages :
            /\ Ascending(dvc_file.content.stages[k].deps)
            /\ Ascending(dvc_file.content.stages[k].outs)

\* a written dvc file with a stage that declared the same output twice and has it once, and
\* a stage that declared two dependencies in descending order
C8_Witness ==
    /\ dvc_file.exists
    /\ \E i, j \in 1..Len(hist) :
        /\ hist[i].inserted /\ hist[j].inserted
        /\ NameIsOwn(i) /\ NameIsOwn(j)
        /\ StoreCfg(hist[i].key) = <<Outs(FRAG_A), Outs(FRAG_A)>>
        /\ Len(dvc_file.content.stages[StageName(hist[i].key)].outs) = 1
        /\ StoreCfg(hist[j].key) = GoodConfig
        /\ Len(dvc_file.content.stages[StageName(hist[j].key)].deps) = 2

\* OmegaConf.resolve has just evaluated a marker of the given kind, at position pos of
\* the stored configuration of the stage in hand
Evaluated(kind) == pc = "resolve" /\ pos >= 1 /\ StoreCfg(stage_key)[pos].kind = kind

\* the argument of that marker
Fragment == StoreCfg(stage_key)[pos].k

\* C9, as stated: an evaluated outs(fragment) appends stage_dir(group, name) + "/" + fragment
\* to the outs of the stage, and that same path becomes the value in the configuration
C9_OutsIsStageDirPath ==
    Evaluated("outs") =>
        /\ Last(current_outs) = stage_dir_fn(stage, name) \o SLASH \o Fragment
        /\ cfg[pos] = Lit(stage_dir_fn(stage, name) \o SLASH \o Fragment)

\* C9, amended: an evaluated outs(fragment) appends the path that leads from the working
\* directory to stage_dir(group, name) + "/" + fragment, and the value in the configuration
\* becomes the fragment itself
C9_OutsRelativeToWdir ==
    Evaluated("outs") =>
        /\ PathJoin(wdir, Last(current_outs))
               = JoinParts(Parts(stage_dir_fn(stage, name) \o SLASH \o Fragment))
        /\ IsPrefix(Parts(wdir), Parts(stage_dir_fn(stage, name)))
        /\ cfg[pos] = Lit(Fragment)

\* the second output marker of a stage of a group was evaluated, with the default working
\* directory: the path appended is "<group>/<name>/<fragment>"
C9_Witness ==
    /\ Evaluated("outs")
    /\ wdir_arg = None
    /\ stage # None
    /\ Len(current_outs) = 2
    /\ Last(current_outs) = stage \o SLASH \o name \o SLASH \o Fragment

Consumer(i, c) ==
    /\ hist[i].inserted
    /\ NameIsOwn(i)
    /\ hist[i].key # <<G1, NAME_M>>
    /\ StoreCfg(hist[i].key) = c

\* C11: a stage that declares a dependency on the file f of producer stage (A, x) has
\* deps == [stage_dir(A, x) + "/" + f] in the manifest
C11_LinkIsProducerDir ==
    \A i \in 1..Len(hist) : \A c \in LinkConfigs :
        Consumer(i, c) =>
            dvc_stages[StageName(hist[i].key)].deps
                = <<stage_dir_fn(G1, NAME_M) \o SLASH \o FRAG_A>>

\* the directory of stage (g, n) as the manifest records it for the stage's own outputs
RecordedDir(g, n) == wdir_p(stage_dir_fn(g, n), TRUE)

\* C12: whatever stage_dir_fn the call was given, a dependency that a stage declares with
\* deps_path on producer (A, x) is recorded, and its producer prefix is the directory
\* that the same call records for the outputs of (A, x)
C12_LinkUsesPolicy ==
    \A i \in 1..Len(hist) :
        Consumer(i, <<deps_path(FRAG_A, G1, NAME_M)>>) =>
            \E d \in Range(dvc_stages[StageName(hist[i].key)].deps) :
                IsPrefix(Parts(RecordedDir(G1, NAME_M)), Parts(d))

\* the names under which the stages of group g would be entered
NamesOfGroup(g) == {StageName(<<g, store[g][i].name>>) : i \in 1..Len(store[g])}

\* C13: a call that reaches its end, and whose write of the dvc file does not raise, has
\* written the file with the stages entered; a group without configurations adds no entry
\* to it, and with no stage entered the file holds an empty stages mapping
C13_ManifestAlwaysWritten ==
    (pc = "done" /\ result = "returned" /\ dvc_write # "raised") =>
        /\ dvc_file.exists
        /\ dvc_file.content.stages = dvc_stages
        /\ DOMAIN dvc_file.content.stages
               \subseteq UNION {NamesOfGroup(g) : g \in Range(stage_groups)}
        /\ (\A i \in 1..Len(hist) : ~hist[i].inserted) => dvc_file.content.stages = <<>>

\* a call over groups that are all without configurations has ended, and the dvc file
\* exists with an empty stages mapping
C13_Witness ==
    /\ pc = "done"
    /\ stage_groups_arg.given
    /\ Len(AllStages) = 0
    /\ dvc_file.exists
    /\ dvc_file.content.stages = <<>>

\* the position of the first value of configuration c whose resolver raises, Len(c) + 1
\* when there is none
FirstBad(c) ==
    IF \E j \in 1..Len(c) : NodeRaises(c[j])
    THEN CHOOSE j \in 1..Len(c) : NodeRaises(c[j]) /\ \A x \in 1..(j - 1) : ~NodeRaises(c[x])
    ELSE Len(c) + 1

\* what the store and the arguments alone determine for stage key: the configuration
\* after OmegaConf.resolve, and the deps and outs of the stage
FinalTree(key) ==
    LET c == StoreCfg(key)
        bad == FirstBad(c)
    IN  [j \in 1..Len(c) |-> IF j < bad THEN Lit(NodeValue(c[j])) ELSE c[j]]

FinalDeps(key) ==
    LET c == StoreCfg(key)
    IN  IF \E j \in 1..Len(c) : NodeRaises(c[j]) THEN <<>> ELSE DeclaredDeps(key)

FinalOuts(key) ==
    LET c == StoreCfg(key)
    IN  IF \E j \in 1..Len(c) : NodeRaises(c[j]) THEN <<>> ELSE DeclaredOuts(key)

\* C14 (part): the configuration file, the deps and the outs of a stage that has just
\* been entered are those that the store and the arguments determine for the stage
C14_EnteredAsDetermined ==
    \A i \in 1..Len(hist) :
        JustEntered(i) =>
            /\ files[ConfigPath(hist[i].key)] = to_yaml(FinalTree(hist[i].key))
            /\ dvc_stages[StageName(hist[i].key)].deps = FinalDeps(hist[i].key)
            /\ dvc_stages[StageName(hist[i].key)].outs = FinalOuts(hist[i].key)

\* C14: the configuration file, the deps and the outs of every stage entered are those
\* that the store, the stage groups and the directory policies determine for the stage by
\* itself, and they stay: they are the same in every run with these inputs, whatever
\* happened to the stages processed before
C14_Deterministic == []C14_EnteredAsDetermined /\ [][EntriesKept]_vars

\* a finished call in which a stage with one output and two dependencies was entered
\* after a stage whose resolution raised
C14_Witness ==
    /\ pc = "done"
    /\ \E i, j \in 1..Len(hist) :
        /\ i < j
        /\ hist[i].inserted /\ hist[j].inserted
        /\ NameIsOwn(i) /\ NameIsOwn(j)
        /\ hist[i].resolve = "raised"
        /\ StoreCfg(hist[j].key) = GoodConfig
        /\ Len(dvc_stages[StageName(hist[j].key)].deps) = 2
        /\ Len(dvc_stages[StageName(hist[j].key)].outs) = 1

\* C15: with dvc_stage_name_fn not passed, every stage entered has the key "<group>/<name>"
\* when its group is not None and the bare "<name>" when it is, also when None is one of
\* the groups of a stage_groups list
C15_DefaultKeys ==
    name_fn_arg = "None" =>
        \A i \in 1..Len(hist) :
            hist[i].inserted =>
                (IF hist[i].key[1] = None
                 THEN hist[i].key[2]
                 ELSE hist[i].key[1] \o SLASH \o hist[i].key[2]) \in DOMAIN dvc_stages

\* the mapping that a call in which every stage succeeds returns
FullMapping ==
    [n \in {StageName(k) : k \in Range(AllStages)} |->
        ConfigPath(CHOOSE k \in Range(AllStages) : StageName(k) = n)]

\* the call is over and every stage succeeded: composed, resolved, written and entered,
\* and the dvc file written
FullySuccessful ==
    /\ pc = "done"
    /\ result = "returned"
    /\ dvc_write = "ok"
    /\ HistKeys = AllStages
    /\ \A i \in 1..Len(hist) :
        /\ hist[i].compose = "ok"
        /\ hist[i].resolve = "ok"
        /\ hist[i].write = "ok"
        /\ hist[i].inserted

\* C16: the returned value tells the outcomes apart: the mapping that a fully successful
\* call returns is returned by no call in which a stage was skipped or degraded or in
\* which the dvc file was not written
C16_ReturnTellsOutcome ==
    (pc = "done" /\ result = "returned" /\ name_fn_arg = "None"
        /\ stage_config_paths = FullMapping) => FullySuccessful

\* the text of a value is an interpolation: it starts with "${"
IsMarkerText(t) == IsPrefix(<<36, 123>>, t)

\* C17: the configuration file of every stage entered holds no marker expression, and its
\* values are the literal values of the resolved configuration in memory, also when the
\* resolution of the stage raised
C17_PersistedIsResolved ==
    \A i \in 1..Len(hist) :
        (hist[i].inserted /\ NameIsOwn(i)) =>
            LET f == files[ConfigPath(hist[i].key)]
                t == FinalTree(hist[i].key)
            IN  /\ Len(f) = Len(t)
                /\ \A j \in 1..Len(f) :
                    /\ ~IsMarkerText(f[j])
                    /\ t[j].kind = "lit"
                    /\ f[j] = t[j].k

\* C18: with an unclosed nested marker in a stored configuration, the call leaves
\* store.add_to_hydra_store with the grammar error: the error was logged, no stage was
\* composed, and no configuration file and no dvc file was written
C18_GrammarErrorRaised ==
    GrammarBad =>
        /\ pc \in {"add_store", "done"}
        /\ pc = "done" => (result = "raised" /\ "add_store" \in errors)
        /\ hist = <<>>
        /\ files = <<>>
        /\ dvc_stages = <<>>
        /\ dvc_write = "none"
        /\ ~dvc_file.exists

\* a call over two stages, one of them with the unclosed marker, has ended
C18_Witness ==
    /\ GrammarBad
    /\ Len(AllStages) = 2
    /\ pc = "done"
    /\ result = "raised"

\* the positions of configuration c that hold a marker of the given kinds
MarkersAt(c, kinds) == {j \in 1..Len(c) : c[j].kind \in kinds}

\* for stage i of hist: each outs(fragment) of its configuration is written to the file as
\* the fragment and recorded in the manifest as the path from the working directory to
\* stage_dir(group, name) + "/" + fragment, no other output is recorded, and deps is []
\* when the configuration declares no dependency
OutsRecorded(i) ==
    LET key == hist[i].key
        c == StoreCfg(key)
        entry == dvc_stages[StageName(key)]
    IN  /\ \A j \in MarkersAt(c, {"outs"}) :
            /\ files[ConfigPath(key)][j] = c[j].k
            /\ \E p \in Range(entry.outs) :
                PathJoin(wdir, p)
                    = JoinParts(Parts(stage_dir_fn(key[1], key[2]) \o SLASH \o c[j].k))
        /\ Cardinality(Range(entry.outs)) = Cardinality({c[j].k : j \in MarkersAt(c, {"outs"})})
        /\ MarkersAt(c, {"deps", "deps1"}) = {} => entry.deps = <<>>

\* C19, as stated: the above, for every stage, when it has just been entered into the
\* manifest, and the entry and the file stay
C19_OutsInManifest ==
    [](\A i \in 1..Len(hist) : JustEntered(i) => OutsRecorded(i))
        /\ [][EntriesKept]_vars

\* C19, amended: the above, for every stage whose resolution did not raise, when it has
\* just been entered into the manifest, and the entry and the file stay
C19_OutsInManifestWhenResolved ==
    [](\A i \in 1..Len(hist) : (JustEntered(i) /\ hist[i].resolve = "ok") => OutsRecorded(i))
        /\ [][EntriesKept]_vars

\* stage (g1, m), with two output markers and no dependency, was entered with the outs
\* "g1/m/a" and "g1/m/b", deps == [], and the fragments in its file
C19_Witness ==
    /\ pc = "done"
    /\ wdir_arg = None
    /\ \E i \in 1..Len(hist) :
        /\ hist[i].inserted /\ NameIsOwn(i) /\ hist[i].resolve = "ok"
        /\ hist[i].key = <<G1, NAME_M>>
        /\ StoreCfg(hist[i].key) = <<Outs(FRAG_B), Outs(FRAG_A)>>
        /\ dvc_stages[StageName(hist[i].key)].outs
               = <<G1 \o SLASH \o NAME_M \o SLASH \o FRAG_A, G1 \o SLASH \o NAME_M \o SLASH \o FRAG_B>>
        /\ dvc_stages[StageName(hist[i].key)].deps = <<>>
        /\ files[ConfigPath(hist[i].key)] = <<FRAG_B, FRAG_A>>

\* for stage i of hist: each deps(path, True) of its configuration with path under the
\* working directory is recorded in the manifest as the path p that leads from the working
\* directory to path, p is the value written to the file, and where path is
\* stage_dir(producer) + "/" + f for an output f that an entered producer declares, p is
\* among the outs recorded for the producer
DepsRecorded(i) ==
    LET key == hist[i].key
        c == StoreCfg(key)
        entry == dvc_stages[StageName(key)]
    IN  \A j \in MarkersAt(c, {"deps"}) :
            (c[j].w /\ IsPrefix(Parts(wdir), Parts(c[j].k))) =>
                \E p \in Range(entry.deps) :
                    /\ PathJoin(wdir, p) = JoinParts(Parts(c[j].k))
                    /\ files[ConfigPath(key)][j] = p
                    /\ \A i2 \in 1..Len(hist) :
                        LET key2 == hist[i2].key
                            c2 == StoreCfg(key2)
                        IN  (hist[i2].inserted /\ NameIsOwn(i2) /\ hist[i2].resolve = "ok") =>
                                \A j2 \in MarkersAt(c2, {"outs"}) :
                                    c[j].k = stage_dir_fn(key2[1], key2[2]) \o SLASH \o c2[j2].k
                                        => p \in Range(dvc_stages[StageName(key2)].outs)

ParamsRecorded(i) ==
    LET key == hist[i].key
        entry == dvc_stages[StageName(key)]
    IN  /\ Len(entry.params) = 1
        /\ entry.params[1].value = None
        /\ PathJoin(wdir, entry.params[1].path) = ConfigPath(key)
        /\ hist[i].write = "ok"
        /\ ConfigPath(key) \in DOMAIN files

\* C21: every stage entry has a params list of exactly one item, which maps the path of the
\* stage's configuration file, relative to the working directory, to null, and the file was
\* written in the same run; the entry and the file stay, and the written dvc file holds
\* the entries as they were made
C21_ParamsNameWrittenFile ==
    /\ [](\A i \in 1..Len(hist) : JustEntered(i) => ParamsRecorded(i))
    /\ [][EntriesKept]_vars
    /\ [](dvc_file.exists => dvc_file.content.stages = dvc_stages)

\* a finished call in which the write of one stage's configuration file raised, and the
\* other stage, (g1, m), is in the written dvc file with params [{"g1/m.yaml": null}]
C21_Witness ==
    /\ pc = "done"
    /\ wdir_arg = None
    /\ dvc_file.exists
    /\ \E i, j \in 1..Len(hist) :
        /\ hist[i].write = "raised"
        /\ hist[j].inserted
        /\ hist[j].key = <<G1, NAME_M>>
        /\ StageName(hist[j].key) \in DOMAIN dvc_file.content.stages
        /\ dvc_file.content.stages[StageName(hist[j].key)].params
               = <<[path |-> G1 \o SLASH \o NAME_M \o YAML_EXT, value |-> None]>>
        /\ ConfigPath(hist[i].key) \notin DOMAIN files

SPACE == <<32>>                                                     \* " "
WORD_PYTHON == <<112, 121, 116, 104, 111, 110>>                     \* "python"
WORD_M == <<45, 109>>                                               \* "-m"
WORD_CD == <<45, 99, 100>>                                          \* "-cd"
WORD_CN == <<45, 99, 110>>                                          \* "-cn"
WORD_BASE == <<43, 122, 101, 110, 100, 97, 103, 61, 98, 97, 115, 101>>  \* "+zendag=base"

\* s.split(sep), for a separator of one character
RECURSIVE SplitOn(_, _, _)
SplitOn(s, sep, cur) ==
    IF s = <<>> THEN <<cur>>
    ELSE IF <<Head(s)>> = sep THEN <<cur>> \o SplitOn(Tail(s), sep, <<>>)
    ELSE SplitOn(Tail(s), sep, cur \o <<Head(s)>>)

\* for stage i of hist: the words of its cmd are python -m <run_script> -cd <c> -cn <name>
\* +zendag=base hydra.run.dir='<d>' and no other, where c leads from the working directory
\* to the configs directory of the group and d to the output directory of the stage
CmdRecorded(i) ==
    LET key == hist[i].key
        w == SplitOn(dvc_stages[StageName(key)].cmd, SPACE, <<>>)
    IN  /\ Len(w) = 9
        /\ w[1] = WORD_PYTHON
        /\ w[2] = WORD_M
        /\ w[3] = RUN_SCRIPT
        /\ w[4] = WORD_CD
        /\ PathJoin(wdir, w[5]) = JoinParts(Parts(configs_dir_fn(key[1])))
        /\ w[6] = WORD_CN
        /\ w[7] = key[2]
        /\ w[8] = WORD_BASE
        /\ \E d \in {RecordedDir(key[1], key[2])} :
            /\ w[9] = RUN_DIR_EQ \o d \o QUOTE
            /\ PathJoin(wdir, d) = JoinParts(Parts(stage_dir_fn(key[1], key[2])))

\* C22: the cmd of every stage entry is "python -m <run_script> -cd <configs dir of the
\* group> -cn <name> +zendag=base hydra.run.dir='<stage output dir>'", both directories
\* relative to the working directory, and it holds no other word: no flag names the group,
\* in ungrouped mode as in any other; the entry stays
C22_CmdOfEntry ==
    /\ [](\A i \in 1..Len(hist) : JustEntered(i) => CmdRecorded(i))
    /\ [][EntriesKept]_vars

\* a call without stage_groups has entered stage m of the null group with the cmd
\* "python -m zendag.run -cd . -cn m +zendag=base hydra.run.dir='m'"
C22_Witness ==
    /\ pc = "done"
    /\ ~stage_groups_arg.given
    /\ NAME_M \in DOMAIN dvc_stages
    /\ dvc_stages[NAME_M].cmd =
           PYTHON_M \o RUN_SCRIPT \o OPT_CD \o DOT \o OPT_CN \o NAME_M \o ZENDAG_BASE
               \o RUN_DIR_EQ \o NAME_M \o QUOTE

(***************************************************************************)
(* Properties of mlflow_run.                                               *)
(***************************************************************************)
\* execution i is one of mlflow_run whose parent run was started
Decorated(i) == mhist[i].fn = "mlflow_run" /\ mhist[i].parent # None

\* the executions before i that wrote .pipeline_id
WritersBefore(i) == {j \in 1..(i - 1) : mhist[j].fn = "start_pipeline" \/ mhist[j].wrote}

\* the last of them
Writer(i) == CHOOSE j \in WritersBefore(i) : \A k \in WritersBefore(i) : k <= j

\* C23: in any sequence of executions, a decorated execution that finds no .pipeline_id
\* starts its parent run with no run id and writes the id of the new run to the file; one
\* that finds the file starts its parent run with the id that start_pipeline or the earlier
\* execution wrote, without the white space around it, and does not write the file; its
\* child run is nested under that same run.  The wrappers write the file at most once
C23_ParentRunProtocol ==
    /\ writes <= 1
    /\ \A i \in 1..Len(mhist) :
        Decorated(i) =>
            /\ IF mhist[i].existed
               THEN /\ WritersBefore(i) # {}
                    /\ mhist[i].run_id = mhist[Writer(i)].parent
                    /\ mhist[i].parent = mhist[Writer(i)].parent
                    /\ ~mhist[i].wrote
               ELSE /\ mhist[i].run_id = None
                    /\ mhist[i].wrote
                    /\ mhist[i].parent \notin {mhist[j].parent : j \in 1..(i - 1)}
                    /\ i = Len(mhist) =>
                           pipeline_id_file \in {mhist[i].parent, mhist[i].parent \o NEWLINE}
            /\ mhist[i].child # None => runs[mhist[i].child].parent = mhist[i].parent

\* two decorated executions have ended: the first created the parent run r0 and wrote
\* "r0\n", the second started the parent run with the id r0 and nested its child under r0
C23_Witness ==
    /\ wpc = "idle"
    /\ Len(mhist) = 2
    /\ mhist[1].fn = "mlflow_run" /\ mhist[1].wrote
    /\ mhist[2].fn = "mlflow_run" /\ mhist[2].existed /\ ~mhist[2].wrote
    /\ mhist[2].run_id = RunId(0)
    /\ runs[mhist[1].child].parent = RunId(0)
    /\ runs[mhist[2].child].parent = RunId(0)
    /\ pipeline_id_file = RunId(0) \o NEWLINE
    /\ writes = 1

\* an execution of a decorated function has just ended
ExecutionEnded == wpc = "idle" /\ Len(mhist) > 0 /\ Last(mhist).fn = "mlflow_run"

\* the child run of the execution that has just ended
EndedChild == runs[Last(mhist).child]

\* DVC_STAGE has the form "<group>/<name>"
WellFormed(v) == ~Falsy(v) /\ HasSlash(v)

\* C24: when the wrapped function raises, the wrapper raises that same exception, having
\* logged run.log as an artifact when the file exists; the configuration file and the
\* parameters logged before the call are still logged
C24_FunctionErrorReraised ==
    (ExecutionEnded /\ world.function = "raises") =>
        /\ outcome.kind = "raised"
        /\ outcome.exc = "ValueError"
        /\ (WellFormed(world.DVC_STAGE) /\ world.log_exists) =>
               \E a \in EndedChild.artifacts : IsPrefix(Parts(ARTIFACTS_ROOT), Parts(a))
                                                  /\ Last(Parts(a)) = RUN_LOG
        /\ (WellFormed(world.DVC_STAGE) /\ world.config_exists) =>
               /\ EndedChild.params
               /\ \E a \in EndedChild.artifacts : Last(Parts(a)) = NAME_M \o YAML_EXT

\* C29: with DVC_STAGE unset, or set to a value without a "/", the decorated function
\* runs in a child run nested in the parent and named after the function (DVC_STAGE unset)
\* or after the value of DVC_STAGE; the wrapper returns the function's result when the
\* function returns, and raises the function's own exception when it raises
C29_RunsWithoutStage ==
    (ExecutionEnded /\ ~WellFormed(world.DVC_STAGE)) =>
        /\ EndedChild.parent = Last(mhist).parent
        /\ EndedChild.parent # None
        /\ EndedChild.name = IF Falsy(world.DVC_STAGE) THEN FUNCTION_NAME ELSE world.DVC_STAGE
        /\ world.function = "returns" =>
               /\ outcome.kind = "returned"
               /\ outcome.value = SUCCESS
        /\ world.function = "raises" =>
               /\ outcome.kind = "raised"
               /\ outcome.exc = "ValueError"

(***************************************************************************)
(* Properties of config_utils.                                             *)
(***************************************************************************)
\* C25: deps_path with input_stage and input_name, and no stage_dir_fn argument, raises
\* ValueError "stage_dir_fn must be provided ..."; with input_stage and no input_name it
\* raises ValueError "input_name must be specified ..."
C25_DepsPathValueErrors ==
    (call.fn = "deps_path" /\ ret.kind # "pending" /\ call.input_stage # None) =>
        /\ call.input_name = None =>
               ret = Raised("ValueError", "input_name must be specified if input_stage is provided.")
        /\ (call.input_name # None /\ call.stage_dir_fn = "default") =>
               ret = Raised("ValueError", "stage_dir_fn must be provided if input_stage/input_name are used.")

\* the paths that the markers of the given kind at the first n positions of the stored
\* configuration of stage key produce
OwnPaths(key, kind, n) ==
    LET c == StoreCfg(key)
    IN  {IF kind = "outs" THEN OutsAppended(RecordedDir(key[1], key[2]), c[j].k)
                          ELSE DepsAppended(c[j].k, c[j].w) :
            j \in {x \in 1..n : c[x].kind = kind}}

\* while a stage is resolved, the lists hold only what the markers of that stage evaluated
\* so far produced
ListsAreOwn ==
    pc = "resolve" =>
        /\ Range(current_outs) \subseteq OwnPaths(stage_key, "outs", pos)
        /\ Range(current_deps) \subseteq OwnPaths(stage_key, "deps", pos)

\* the deps and outs that stage i of hist is entered with hold only paths of its own markers
EntryIsOwn(i) ==
    LET key == hist[i].key
        entry == dvc_stages[StageName(key)]
    IN  /\ Range(entry.outs) \subseteq OwnPaths(key, "outs", Len(StoreCfg(key)))
        /\ Range(entry.deps) \subseteq OwnPaths(key, "deps", Len(StoreCfg(key)))

PassPaths(p, kind) ==
    LET c == frames[p].composed
        key == frames[p].key
    IN  {IF kind = "outs" THEN OutsAppended(RecordedDir(key[1], key[2]), c[j].k)
                          ELSE DepsAppended(c[j].k, c[j].w) :
            j \in {x \in 1..Len(c) : c[x].kind = kind}}

\* the lists of pass p hold its own paths only, and all of them once its resolve returned
PassIsolated(p) ==
    /\ Range(frames[p].current_outs) \subseteq PassPaths(p, "outs")
    /\ Range(frames[p].current_deps) \subseteq PassPaths(p, "deps")
    /\ frames[p].resolve = "ok" =>
          /\ frames[p].all_outs = SortSet(PassPaths(p, "outs"))
          /\ frames[p].all_deps = SortSet(PassPaths(p, "deps"))

\* C27: when the register and resolve steps of two stages are not interleaved, each pass
\* appends only to its own lists and records exactly the paths of its own stage; the lists
\* can hold another stage's paths, or miss their own, only after the steps were interleaved
C27_IsolatedWithoutInterleaving ==
    ~overlap => \A p \in Passes : PassIsolated(p)

\* the steps were interleaved, both resolves returned, and the dependency declared by the
\* first pass is recorded by the second and not by the first
C27_Witness ==
    /\ overlap
    /\ \A p \in Passes : frames[p].resolve = "ok"
    /\ DepsAppended(FRAG_A, FALSE) \in PassPaths(1, "deps")
    /\ DepsAppended(FRAG_A, FALSE) \in Range(frames[2].all_deps)
    /\ DepsAppended(FRAG_A, FALSE) \notin Range(frames[1].all_deps)

(***************************************************************************)
(* Properties of one call of configure_pipeline, continued.                *)
(***************************************************************************)
\* stage i of hist was entered, and its configuration holds outputs and dependencies
\* written as deps_path(fragment) returns them, at least one of these, and nothing else
SingleArgStage(i) ==
    LET c == StoreCfg(hist[i].key)
    IN  /\ JustEntered(i)
        /\ \A j \in 1..Len(c) : c[j].kind \in {"outs", "deps1"}
        /\ \E j \in 1..Len(c) : c[j].kind = "deps1"

\* C28: a stage that declares a dependency with the marker deps_path(fragment) produces has
\* that dependency in the deps of its manifest entry, and the outputs declared in the same
\* configuration in its outs
C28_SingleArgMarkerRecorded ==
    \A i \in 1..Len(hist) :
        SingleArgStage(i) =>
            LET c == StoreCfg(hist[i].key)
                entry == dvc_stages[StageName(hist[i].key)]
            IN  /\ \A j \in {x \in 1..Len(c) : c[x].kind = "deps1"} :
                       \E d \in Range(entry.deps) : Last(Parts(d)) = Last(Parts(c[j].k))
                /\ Range(entry.outs) = OwnPaths(hist[i].key, "outs", Len(c))

\* the call has returned
CallReturned == pc = "done" /\ result = "returned"

\* stage i of hist was passed over: its composition or the write of its file raised
Skipped(i) == hist[i].compose = "raised" \/ hist[i].write = "raised"

\* the last stage entered under the name nm
LastEntered(nm) ==
    CHOOSE i \in 1..Len(hist) :
        /\ hist[i].inserted
        /\ StageName(hist[i].key) = nm
        /\ \A j \in (i + 1)..Len(hist) : ~(hist[j].inserted /\ StageName(hist[j].key) = nm)

\* the mapping returned and the manifest hold the same names; each path returned is the
\* file written for the stage entered under that name; a stage passed over is in neither
\* and a stage whose resolution raised is in both
MappingMatchesManifest ==
    /\ DOMAIN stage_config_paths = DOMAIN dvc_stages
    /\ dvc_write = "ok" => DOMAIN dvc_file.content.stages = DOMAIN stage_config_paths
    /\ DOMAIN stage_config_paths = {StageName(hist[i].key) : i \in {j \in 1..Len(hist) : hist[j].inserted}}
    /\ \A nm \in DOMAIN stage_config_paths :
          /\ stage_config_paths[nm] = ConfigPath(hist[LastEntered(nm)].key)
          /\ stage_config_paths[nm] \in DOMAIN files
          /\ hist[LastEntered(nm)].write = "ok"
    /\ \A i \in 1..Len(hist) :
          /\ (Skipped(i) /\ NameIsOwn(i)) =>
                 /\ StageName(hist[i].key) \notin DOMAIN stage_config_paths
                 /\ StageName(hist[i].key) \notin DOMAIN dvc_stages
          /\ (hist[i].resolve = "raised" /\ ~Skipped(i)) =>
                 /\ StageName(hist[i].key) \in DOMAIN stage_config_paths
                 /\ StageName(hist[i].key) \in DOMAIN dvc_stages

\* C30: when configure_pipeline returns, the names of the returned mapping are the names of
\* the stages entered into the manifest, each returned path is the configuration file
\* written for its stage, a stage passed over for a composition or write failure is in
\* neither, and a stage whose resolution raised is in both
C30_ReturnedMatchesManifest ==
    [](CallReturned => MappingMatchesManifest) /\ [][EntriesKept]_vars

\* a call has returned after it passed over one stage and entered another whose
\* resolution raised
C30_Witness ==
    /\ CallReturned
    /\ dvc_write = "ok"
    /\ \E i, j \in 1..Len(hist) :
          /\ Skipped(i) /\ NameIsOwn(i)
          /\ hist[j].resolve = "raised" /\ hist[j].inserted

====
